---- MODULE Spec2Model ----
(***************************************************************************)
(* A model of fluent-expressions: SolidExpression (src/src/SolidExpression *)
(* .js), the fluent builder of regular expressions, over the node algebra  *)
(* (RegexAst.bs) and the serializer (StringifyAst.bs).                     *)
(*                                                                         *)
(* Text (a regex source, a flag string, a string argument) is a sequence   *)
(* of one-character strings, so that escaping, anchor extraction and       *)
(* rendering are computed character by character.                          *)
(*                                                                         *)
(* The expression objects live in `heap`: the object with identity i holds *)
(* the root node heap[i] in its private field #rootNode, and made[i] is    *)
(* the call that returned it.  Every method call is one action; `call`     *)
(* records the last call, `warned` is the latch of the argument-type       *)
(* warning.                                                                *)
(***************************************************************************)
EXTENDS Integers, Sequences, FiniteSets, TLC

VARIABLES heap, made, call, warned

vars == <<heap, made, call, warned>>

(***************************************************************************)
(* Bounds of the model.                                                    *)
(***************************************************************************)
\* The number of expression objects alive in one run.
MaxObjs == 3
\* The length of the strings and regex sources drawn as sanitizer inputs.
MaxStrLen == 3

(***************************************************************************)
(* Text helpers.                                                           *)
(***************************************************************************)
\* JavaScript's undefined, for a text field and for a node field.
Undef == <<"undefined">>
UndefNode == [t |-> "undefined"]
\* An optional integer (a quantifier bound that may be omitted).
Some(n) == [some |-> TRUE, v |-> n]
None == [some |-> FALSE, v |-> 0]

RECURSIVE Concat(_)
\* Array.prototype.join("") of a sequence of texts.
Concat(ss) == IF ss = <<>> THEN <<>> ELSE Head(ss) \o Concat(Tail(ss))

RECURSIVE Join(_, _)
\* Array.prototype.join(sep) of a sequence of texts.
Join(ss, sep) ==
  IF ss = <<>> THEN <<>>
  ELSE IF Len(ss) = 1 THEN Head(ss)
  ELSE Head(ss) \o sep \o Join(Tail(ss), sep)

\* String.prototype.startsWith / endsWith for a one-character needle.
StartsWith(s, c) == Len(s) > 0 /\ s[1] = c
EndsWith(s, c) == Len(s) > 0 /\ s[Len(s)] = c

\* source.replace(/^\^/, ""): drop one leading `^`.
StripLeadingCaret(s) == IF StartsWith(s, "^") THEN Tail(s) ELSE s
\* source.replace(/\$$/, ""): drop one trailing `$`.
StripTrailingDollar(s) ==
  IF EndsWith(s, "$") THEN SubSeq(s, 1, Len(s) - 1) ELSE s

\* The characters of a text, and whether a text repeats a character.
CharsOf(s) == {s[i] : i \in DOMAIN s}
NoDuplicates(s) == \A i, j \in DOMAIN s : s[i] = s[j] => i = j

\* The decimal digits of a small natural number, as text.
DigitChar(d) == <<"0", "1", "2", "3", "4", "5", "6", "7", "8", "9">>[d + 1]
RECURSIVE NatText(_)
NatText(n) == IF n < 10 THEN <<DigitChar(n)>>
              ELSE NatText(n \div 10) \o <<DigitChar(n % 10)>>

(***************************************************************************)
(* Literal sanitizer (RegexAst.bs): the metacharacters and their escaping. *)
(***************************************************************************)
MetaChars == {".", "*", "+", "?", "^", "$", "{", "}", "(", ")", "|", "[",
              "]", "\\", "/"}

RECURSIVE Escape(_)
\* Every metacharacter is preceded by a backslash.
Escape(s) ==
  IF s = <<>> THEN <<>>
  ELSE (IF Head(s) \in MetaChars THEN <<"\\", Head(s)>> ELSE <<Head(s)>>)
       \o Escape(Tail(s))

(***************************************************************************)
(* Node algebra (RegexAst.bs): the node variants.                          *)
(***************************************************************************)
empty == [t |-> "Empty"]
Literal(src, escaped) == [t |-> "Literal", src |-> src, escaped |-> escaped]
Sequence(items) == [t |-> "Sequence", items |-> items]
Alternation(items) == [t |-> "Alternation", items |-> items]
Quantified(child, min, max, lazy) ==
  [t |-> "Quantified", child |-> child, min |-> min, max |-> max,
   lazy |-> lazy]
Group(child, name) == [t |-> "Group", child |-> child, name |-> name]
Lookaround(child, negate) ==
  [t |-> "Lookaround", child |-> child, negate |-> negate]
CharClass(chars, rangePairs, negate) ==
  [t |-> "CharClass", chars |-> chars, ranges |-> rangePairs,
   negate |-> negate]
BuiltIn(tag) == [t |-> "BuiltIn", tag |-> tag]

whitespace == BuiltIn("whitespace")
digit == BuiltIn("digit")
word == BuiltIn("word")
tab == BuiltIn("tab")
linebreak == BuiltIn("linebreak")
anyChar == BuiltIn("any")

\* The children of a composite, one level flattened into the parent.
Flatten(tag, n) == IF n.t = tag THEN n.items ELSE <<n>>

\* (faulty variant) then(a, b) keeps an empty node on the left as a part.
ThenKeepsEmpty(a, b) ==
  IF a.t = "Sequence" THEN Sequence(a.items \o Flatten("Sequence", b))
  ELSE Sequence(<<a, b>>)
\* then(a, b): concatenation; the empty node contributes nothing on the left.
then_(a, b) ==
  IF a.t = "Empty" THEN b
  ELSE IF a.t = "Sequence" THEN Sequence(a.items \o Flatten("Sequence", b))
  ELSE Sequence(<<a, b>>)

RECURSIVE FlattenAll(_, _)
FlattenAll(tag, ns) ==
  IF ns = <<>> THEN <<>>
  ELSE Flatten(tag, Head(ns)) \o FlattenAll(tag, Tail(ns))

\* alt(list) / or(a, b): alternation, nested alternations flattened one level.
alt(ns) == Alternation(FlattenAll("Alternation", ns))
or_(a, b) == alt(<<a, b>>)

\* seq(list): the concatenation of the list, left to right.
RECURSIVE SeqFrom(_, _)
SeqFrom(acc, ns) ==
  IF ns = <<>> THEN acc ELSE SeqFrom(then_(acc, Head(ns)), Tail(ns))
seq(ns) == SeqFrom(empty, ns)

\* maybe(a, b) = then(a, b?)
maybe(a, b) == then_(a, Quantified(b, Some(0), Some(1), FALSE))

\* repeat(a, min, max): an omitted min is 0, an omitted max is unbounded.
repeat(a, min, max) ==
  Quantified(a, IF min.some THEN min ELSE Some(0), max, FALSE)
\* repeatExact(a, n): min = max = n.
repeatExact(a, n) == Quantified(a, n, n, FALSE)
oneOrMore(a) == Quantified(a, Some(1), None, FALSE)
zeroOrMore(a, lazy) == Quantified(a, Some(0), None, lazy)

\* anything / something and their negated-class forms, appended to a.
anything(a, lazy) == then_(a, Quantified(anyChar, Some(0), None, lazy))
something(a) == then_(a, Quantified(anyChar, Some(1), None, FALSE))
anythingBut(a, chars, lazy) ==
  then_(a, Quantified(CharClass(CharsOf(chars), <<>>, TRUE), Some(0), None,
                      lazy))
somethingBut(a, chars) ==
  then_(a, Quantified(CharClass(CharsOf(chars), <<>>, TRUE), Some(1), None,
                      FALSE))
anyOf(a, chars) ==
  then_(a, zeroOrMore(CharClass(CharsOf(chars), <<>>, FALSE), FALSE))
someOf(a, chars) == then_(a, oneOrMore(CharClass(CharsOf(chars), <<>>, FALSE)))
oneOf(a, chars) == then_(a, CharClass(CharsOf(chars), <<>>, FALSE))

\* The order of the characters used as range boundaries.
CharOrder == <<"0", "9", "a", "f", "z">>
CharCode(c) == CHOOSE i \in DOMAIN CharOrder : CharOrder[i] = c
\* A boundary pair is valid when both ends are one known character and the
\* low end is not after the high end.
ValidPair(p) ==
  /\ Len(p[1]) = 1 /\ Len(p[2]) = 1
  /\ p[1][1] \in CharsOf(CharOrder) /\ p[2][1] \in CharsOf(CharOrder)
  /\ CharCode(p[1][1]) <= CharCode(p[2][1])
\* ranges(a, pairs, negate) fails with InvalidRangeError on an invalid pair.
rangesFails(pairs) == \E i \in DOMAIN pairs : ~ValidPair(pairs[i])
ranges(a, pairs, negate) == then_(a, CharClass({}, pairs, negate))

followedBy(a, b) == then_(a, Lookaround(b, FALSE))
notFollowedBy(a, b) == then_(a, Lookaround(b, TRUE))

\* group(a, name): a capturing group, named when a name is given.
\* A name must be ASCII word characters and not start with a digit.
WordStart ==
  {"a", "b", "w", "h", "_", "d", "e", "l", "o", "p", "r", "s", "u", "G"}
WordChars == WordStart \cup {"0", "1", "2", "3", "9"}
ValidGroupName(name) ==
  /\ name # <<>> /\ name[1] \in WordStart
  /\ \A i \in DOMAIN name : name[i] \in WordChars
groupFails(name) == name # Undef /\ ~ValidGroupName(name)
group(a, name) == Group(a, name)

(***************************************************************************)
(* Root wrapper (RegexAst.bs): a node with its anchors and its flags.      *)
(***************************************************************************)
DefaultFlags == <<"g", "i">>

RootNode(node, prefix, suffix, flags) ==
  [node |-> node, prefix |-> prefix, suffix |-> suffix, flags |-> flags]

\* createRoot({prefix, suffix, flags, source, node, sanitize}): the node is
\* the given node, or the literal of the source (escaped when sanitize is
\* set), or the empty node; absent anchors are empty, absent flags are the
\* default flags.
createRoot(arg) ==
  RootNode(
    IF arg.node # UndefNode THEN arg.node
    ELSE IF arg.source = Undef \/ arg.source = <<>> THEN empty
    ELSE IF arg.sanitize THEN Literal(Escape(arg.source), TRUE)
    ELSE Literal(arg.source, FALSE),
    IF arg.prefix = Undef THEN <<>> ELSE arg.prefix,
    IF arg.suffix = Undef THEN <<>> ELSE arg.suffix,
    IF arg.flags = Undef THEN DefaultFlags ELSE arg.flags)

getNode(root) == root.node
setNode(root, node) == [root EXCEPT !.node = node]
setPrefix(root, prefix) == [root EXCEPT !.prefix = prefix]
setSuffix(root, suffix) == [root EXCEPT !.suffix = suffix]

RECURSIVE Dedup(_)
\* A text without the later occurrences of its characters.
Dedup(s) ==
  IF s = <<>> THEN <<>>
  ELSE LET r == Dedup(SubSeq(s, 1, Len(s) - 1))
           c == s[Len(s)]
       IN IF c \in CharsOf(r) THEN r ELSE Append(r, c)

\* addFlags / removeFlags: set union / set difference on the flag set.
addFlags(root, chars) ==
  [root EXCEPT !.flags = Dedup(root.flags \o chars)]
removeFlags(root, chars) ==
  [root EXCEPT !.flags = SelectSeq(root.flags,
                                   LAMBDA c : c \notin CharsOf(chars))]

(***************************************************************************)
(* Serializer (StringifyAst.bs): root node -> {source, flags}.             *)
(***************************************************************************)
IntText(n) == IF n < 0 THEN <<"-">> \o NatText(0 - n) ELSE NatText(n)

\* (faulty variant) the quantifier token is always written with braces.
QuantTokenBraces(min, max) ==
  IF ~max.some THEN <<"{">> \o IntText(min.v) \o <<",", "}">>
  ELSE IF min.v = max.v THEN <<"{">> \o IntText(min.v) \o <<"}">>
  ELSE <<"{">> \o IntText(min.v) \o <<",">> \o IntText(max.v) \o <<"}">>
\* The quantifier token: the shorthand when there is one.
QuantToken(min, max) ==
  IF min.v = 1 /\ ~max.some THEN <<"+">>
  ELSE IF min.v = 0 /\ ~max.some THEN <<"*">>
  ELSE IF min.v = 0 /\ max.some /\ max.v = 1 THEN <<"?">>
  ELSE IF ~max.some THEN <<"{">> \o IntText(min.v) \o <<",", "}">>
  ELSE IF min.v = max.v THEN <<"{">> \o IntText(min.v) \o <<"}">>
  ELSE <<"{">> \o IntText(min.v) \o <<",">> \o IntText(max.v) \o <<"}">>

\* (faulty variant) a sequence is quantified as it stands.
IsAtomicOrSequence(n) ==
  \/ n.t \in {"Group", "Lookaround", "CharClass", "Sequence"}
  \/ n.t = "Literal" /\ Len(n.src) = 1
\* A fragment that is quantified without a group of its own: a group, a
\* look-around, a character class, a one-character literal.  The built-in
\* classes are grouped: the snapshot of test/SolidExpression.test.js renders
\* Fx.whitespace.oneOrMore() as (?:\s)+ .
IsAtomic(n) ==
  \/ n.t \in {"Group", "Lookaround", "CharClass"}
  \/ n.t = "Literal" /\ Len(n.src) = 1

\* (faulty variant) nothing is grouped within a sequence.
NeverGroupInSequence(n) == FALSE
\* Within a sequence only an alternation is grouped.
NeedsGroupInSequence(n) == n.t = "Alternation"

NonCapturing(text) == <<"(", "?", ":">> \o text \o <<")">>

BuiltInToken(tag) ==
  CASE tag = "whitespace" -> <<"\\", "s">>
    [] tag = "digit" -> <<"\\", "d">>
    [] tag = "word" -> <<"\\", "w", "+">>
    [] tag = "tab" -> <<"\\", "t">>
    [] tag = "linebreak" ->
         <<"(", "?", ":", "\\", "r", "\\", "n", "|", "\\", "r", "|", "\\",
           "n", ")">>
    [] tag = "any" -> <<".">>

\* The characters a class renders, in a fixed order.
ClassCharOrder == <<"-", "0", "9", "]", "^", "a", "b", "f", "z", "\\">>
ClassEscaped == {"]", "^", "-", "\\"}
ClassChar(c) == IF c \in ClassEscaped THEN <<"\\", c>> ELSE <<c>>
RECURSIVE ClassChars(_, _)
ClassChars(chars, i) ==
  IF i > Len(ClassCharOrder) THEN <<>>
  ELSE (IF ClassCharOrder[i] \in chars THEN ClassChar(ClassCharOrder[i])
        ELSE <<>>) \o ClassChars(chars, i + 1)
RECURSIVE ClassRanges(_)
ClassRanges(pairs) ==
  IF pairs = <<>> THEN <<>>
  ELSE Head(pairs)[1] \o <<"-">> \o Head(pairs)[2] \o ClassRanges(Tail(pairs))

RECURSIVE Render(_)
RECURSIVE RenderItems(_, _)
\* The rendered children of a sequence (grouped = TRUE) or an alternation.
RenderItems(items, grouped) ==
  IF items = <<>> THEN <<>>
  ELSE <<IF grouped /\ NeedsGroupInSequence(Head(items))
         THEN NonCapturing(Render(Head(items)))
         ELSE Render(Head(items))>> \o RenderItems(Tail(items), grouped)

Render(n) ==
  CASE n.t = "Empty" -> <<>>
    [] n.t = "Literal" -> n.src
    [] n.t = "Sequence" -> Concat(RenderItems(n.items, TRUE))
    [] n.t = "Alternation" -> Join(RenderItems(n.items, FALSE), <<"|">>)
    [] n.t = "Quantified" ->
         (IF IsAtomic(n.child) THEN Render(n.child)
          ELSE NonCapturing(Render(n.child)))
         \o QuantToken(n.min, n.max)
         \o (IF n.lazy THEN <<"?">> ELSE <<>>)
    [] n.t = "Group" ->
         <<"(">> \o (IF n.name = Undef THEN <<>>
                     ELSE <<"?", "<">> \o n.name \o <<">">>)
         \o Render(n.child) \o <<")">>
    [] n.t = "Lookaround" ->
         <<"(", "?", IF n.negate THEN "!" ELSE "=">> \o Render(n.child)
         \o <<")">>
    [] n.t = "CharClass" ->
         <<"[">> \o (IF n.negate THEN <<"^">> ELSE <<>>)
         \o ClassChars(n.chars, 1) \o ClassRanges(n.ranges) \o <<"]">>
    [] n.t = "BuiltIn" -> BuiltInToken(n.tag)

RECURSIVE BadQuantifier(_)
\* Some quantifier of the tree has both bounds and min > max.
BadQuantifier(n) ==
  CASE n.t \in {"Sequence", "Alternation"} ->
         \E i \in DOMAIN n.items : BadQuantifier(n.items[i])
    [] n.t = "Quantified" ->
         (n.max.some /\ n.min.v > n.max.v) \/ BadQuantifier(n.child)
    [] n.t \in {"Group", "Lookaround"} -> BadQuantifier(n.child)
    [] OTHER -> FALSE

\* stringify fails with UnsupportedQuantifierRangeError on such a tree.
stringifyFails(root) == BadQuantifier(root.node)
\* stringify(root): the anchors around the rendered body, and the flags.
stringify(root) ==
  [source |-> root.prefix \o Render(root.node) \o root.suffix,
   flags |-> root.flags]

(***************************************************************************)
(* The host's RegExp constructor, as compile() uses it.                    *)
(***************************************************************************)
\* The flags of a RegExp, in the order RegExp.prototype.flags lists them.
RegExpFlagOrder == <<"d", "g", "i", "m", "s", "u", "y">>
\* new RegExp(source, flags) throws a SyntaxError on an unknown or a
\* repeated flag.
RegExpFails(flags) ==
  ~NoDuplicates(flags) \/ ~(CharsOf(flags) \subseteq CharsOf(RegExpFlagOrder))
\* The source and flags properties of new RegExp(source, flags): the empty
\* source reads (?:), the flags read in the canonical order.
NewRegExp(source, flags) ==
  [source |-> IF source = <<>> THEN <<"(", "?", ":", ")">> ELSE source,
   flags |-> SelectSeq(RegExpFlagOrder, LAMBDA c : c \in CharsOf(flags))]

(***************************************************************************)
(* Argument values of the API.                                             *)
(***************************************************************************)
StringValue(s) == [k |-> "string", s |-> s]
\* A number, given by the text Number.prototype.toString returns for it.
NumberValue(s) == [k |-> "number", s |-> s]
RegExpValue(source, flags) == [k |-> "regexp", s |-> source, flags |-> flags]
\* An expression object, by identity.
ExprValue(i) == [k |-> "expr", id |-> i]
\* A value of an unsupported type (an object, a boolean, a function).
OtherValue == [k |-> "other"]
\* null or undefined.
NullValue == [k |-> "null"]
NoArg == [k |-> "none"]

(***************************************************************************)
(* SolidExpression (src/src/SolidExpression.js).                           *)
(***************************************************************************)
\* The argument object of the constructor; absent properties are undefined.
Params(source, node, flags, prefix, suffix, sanitize) ==
  [source |-> source, node |-> node, flags |-> flags, prefix |-> prefix,
   suffix |-> suffix, sanitize |-> sanitize]

\* (faulty variant) #preSanitize passes a string on with sanitize: false.
PreSanitizeRaw(value) ==
  IF value.k = "regexp" THEN
    LET source == IF value.s = <<"(", "?", ":", ")">> THEN <<>> ELSE value.s
        prefix == IF StartsWith(source, "^") THEN <<"^">> ELSE <<>>
        suffix == IF EndsWith(source, "$") THEN <<"$">> ELSE <<>>
    IN Params(StripTrailingDollar(StripLeadingCaret(source)), UndefNode,
              value.flags, prefix, suffix, FALSE)
  ELSE IF value.k = "number" THEN
    Params(value.s, UndefNode, Undef, Undef, Undef, FALSE)
  ELSE IF value.k # "string" THEN
    Params(<<>>, UndefNode, Undef, Undef, Undef, FALSE)
  ELSE Params(value.s, UndefNode, Undef, Undef, Undef, FALSE)

\* (faulty variant) #preSanitize takes the text of a value of another type.
PreSanitizeOtherText(value) ==
  IF value.k = "regexp" THEN
    LET source == IF value.s = <<"(", "?", ":", ")">> THEN <<>> ELSE value.s
        prefix == IF StartsWith(source, "^") THEN <<"^">> ELSE <<>>
        suffix == IF EndsWith(source, "$") THEN <<"$">> ELSE <<>>
    IN Params(StripTrailingDollar(StripLeadingCaret(source)), UndefNode,
              value.flags, prefix, suffix, FALSE)
  ELSE IF value.k = "number" THEN
    Params(value.s, UndefNode, Undef, Undef, Undef, FALSE)
  ELSE IF value.k # "string" THEN
    Params(<<"o">>, UndefNode, Undef, Undef, Undef, FALSE)
  ELSE Params(value.s, UndefNode, Undef, Undef, Undef, TRUE)

\* (faulty variant) #preSanitize strips the trailing `$` and returns no suffix.
PreSanitizeNoSuffix(value) ==
  IF value.k = "regexp" THEN
    LET source == IF value.s = <<"(", "?", ":", ")">> THEN <<>> ELSE value.s
        prefix == IF StartsWith(source, "^") THEN <<"^">> ELSE <<>>
    IN Params(StripTrailingDollar(StripLeadingCaret(source)), UndefNode,
              value.flags, prefix, Undef, FALSE)
  ELSE IF value.k = "number" THEN
    Params(value.s, UndefNode, Undef, Undef, Undef, FALSE)
  ELSE IF value.k # "string" THEN
    Params(<<>>, UndefNode, Undef, Undef, Undef, FALSE)
  ELSE Params(value.s, UndefNode, Undef, Undef, Undef, TRUE)

\* #preSanitize(value)
preSanitize(value) ==
  IF value.k = "regexp" THEN
    LET source == IF value.s = <<"(", "?", ":", ")">> THEN <<>> ELSE value.s
        prefix == IF StartsWith(source, "^") THEN <<"^">> ELSE <<>>
        suffix == IF EndsWith(source, "$") THEN <<"$">> ELSE <<>>
    IN Params(StripTrailingDollar(StripLeadingCaret(source)), UndefNode,
              value.flags, prefix, suffix, FALSE)
  ELSE IF value.k = "number" THEN
    Params(value.s, UndefNode, Undef, Undef, Undef, FALSE)
  ELSE IF value.k # "string" THEN
    Params(<<>>, UndefNode, Undef, Undef, Undef, FALSE)
  ELSE Params(value.s, UndefNode, Undef, Undef, Undef, TRUE)

\* new SolidExpression(arg): the root node of the new object.
New(arg) == createRoot(arg)

\* (faulty variant) from(node) passes the node and the anchors on, not the
\* flags.
FromWithoutFlags(root) ==
  New(Params(Undef, root.node, Undef, root.prefix, root.suffix, FALSE))
\* SolidExpression.from(node): a new object from a root node.
From(root) ==
  New(Params(Undef, root.node, root.flags, root.prefix, root.suffix, FALSE))

\* SolidExpression.of(x): x itself when it is an expression, else a new
\* object from the sanitized value.  The root node of the result.
Of(h, x) == IF x.k = "expr" THEN h[x.id] ELSE New(preSanitize(x))

\* The static primitives.
StaticEmpty == New(Params(Undef, empty, Undef, Undef, Undef, FALSE))
StaticWhitespace == New(Params(Undef, whitespace, Undef, Undef, Undef, FALSE))
StaticDigit == New(Params(Undef, digit, Undef, Undef, Undef, FALSE))
StaticTab == New(Params(Undef, tab, Undef, Undef, Undef, FALSE))
StaticWord == New(Params(Undef, word, Undef, Undef, Undef, FALSE))
StaticLinebreak == New(Params(Undef, linebreak, Undef, Undef, Undef, FALSE))

\* Sx(value): whether the value is of a supported type, and the root node
\* of the expression returned.
SxSupported(value) == value.k \in {"string", "number", "regexp", "expr"}
SxWarns(value) == ~SxSupported(value) /\ value.k # "null"
Sx(h, value) == IF SxSupported(value) THEN Of(h, value) ELSE StaticEmpty

\* The nodes of the arguments of Sx.or / Sx.seq.
NodesOf(h, xs) == [i \in DOMAIN xs |-> Of(h, xs[i]).node]
\* (faulty variant) Sx.or keeps the flags of its first argument.
StaticOrKeepsFlags(h, xs) ==
  From([node |-> alt(NodesOf(h, xs)), prefix |-> Undef, suffix |-> Undef,
        flags |-> Of(h, xs[1]).flags])
\* SolidExpression.or(...xs) and SolidExpression.seq(...xs)
StaticOrRoot(h, xs) ==
  From([node |-> alt(NodesOf(h, xs)), prefix |-> Undef, suffix |-> Undef,
        flags |-> Undef])
StaticSeqRoot(h, xs) ==
  From([node |-> seq(NodesOf(h, xs)), prefix |-> Undef, suffix |-> Undef,
        flags |-> Undef])

\* A new object holding the root node: the heap after the allocation.
Alloc(h, root) == Append(h, root)

\* (faulty variant) #setPrefix puts the prefix before the receiver's prefix.
SetPrefixPrepends(h, i, prefix) ==
  Alloc(h, setPrefix(h[i], prefix \o h[i].prefix))
\* #setPrefix / #setSuffix: a new instance whose root node is the
\* receiver's with the anchor replaced.
SetPrefixMethod(h, i, prefix) == Alloc(h, setPrefix(h[i], prefix))
\* (faulty variant) #setSuffix also writes the receiver's own #rootNode.
SetSuffixInPlace(h, i, suffix) ==
  Alloc([h EXCEPT ![i] = setSuffix(h[i], suffix)], setSuffix(h[i], suffix))
SetSuffixMethod(h, i, suffix) == Alloc(h, setSuffix(h[i], suffix))

\* (faulty variant) assertEndOfLine(enable) also resets the prefix.
AssertEndOfLineResetsPrefix(h, i, enable) ==
  Alloc(h, setPrefix(setSuffix(h[i], IF enable THEN <<"$">> ELSE <<>>), <<>>))
assertStartOfLine(h, i, enable) ==
  SetPrefixMethod(h, i, IF enable THEN <<"^">> ELSE <<>>)
assertEndOfLine(h, i, enable) ==
  SetSuffixMethod(h, i, IF enable THEN <<"$">> ELSE <<>>)

\* (faulty variant) then(value) without setSuffix(root, "").
ThenKeepsSuffix(h, i, value) ==
  Alloc(h, From(setNode(h[i], then_(getNode(h[i]), Of(h, value).node))))
\* then(value), maybe(value), or(value)
ThenMethod(h, i, value) ==
  Alloc(h, From(setNode(setSuffix(h[i], <<>>),
                        then_(getNode(h[i]), Of(h, value).node))))
MaybeMethod(h, i, value) ==
  Alloc(h, From(setNode(setSuffix(h[i], <<>>),
                        maybe(getNode(h[i]), Of(h, value).node))))
\* (faulty variant) or(value) takes the suffix of the argument.
OrTakesSuffix(h, i, value) ==
  Alloc(h, From(setNode(setSuffix(h[i], Of(h, value).suffix),
                        or_(getNode(h[i]), Of(h, value).node))))
OrMethod(h, i, value) ==
  Alloc(h, From(setNode(h[i], or_(getNode(h[i]), Of(h, value).node))))

\* (faulty variant) assertFollowedBy(value) takes the prefix of the argument.
FollowedByTakesPrefix(h, i, value) ==
  Alloc(h, From(setNode(setPrefix(h[i], Of(h, value).prefix),
                        followedBy(getNode(h[i]), Of(h, value).node))))
\* assertFollowedBy(value) / assertNotFollowedBy(value)
AssertFollowedByMethod(h, i, value) ==
  Alloc(h, From(setNode(h[i],
                        followedBy(getNode(h[i]), Of(h, value).node))))
AssertNotFollowedByMethod(h, i, value) ==
  Alloc(h, From(setNode(h[i],
                        notFollowedBy(getNode(h[i]), Of(h, value).node))))

\* makeRanges(ranges): the arguments flattened and paired; an odd number of
\* boundaries fails the assertion.
FlatRanges(characterRanges) == Concat(characterRanges)
\* (faulty variant) makeRanges without the assertion.
MakeRangesUnchecked(characterRanges) == FALSE
\* (faulty variant) makeRanges pairs each boundary with the one before it.
MakeRangesSwapped(characterRanges) ==
  LET flat == FlatRanges(characterRanges)
  IN [i \in 1..(Len(flat) \div 2) |-> <<flat[2 * i], flat[2 * i - 1]>>]
makeRangesFails(characterRanges) == Len(FlatRanges(characterRanges)) % 2 # 0
makeRanges(characterRanges) ==
  LET flat == FlatRanges(characterRanges)
  IN [i \in 1..(Len(flat) \div 2) |-> <<flat[2 * i - 1], flat[2 * i]>>]

\* charOfRanges(...characterRanges) / charNotOfRanges(...characterRanges)
CharOfRangesMethod(h, i, characterRanges) ==
  Alloc(h, From(setNode(h[i], ranges(getNode(h[i]),
                                     makeRanges(characterRanges), FALSE))))
CharNotOfRangesMethod(h, i, characterRanges) ==
  Alloc(h, From(setNode(h[i], ranges(getNode(h[i]),
                                     makeRanges(characterRanges), TRUE))))

\* lineBreak(), br(), tab(), word(), digit(), whitespace(): this.then(static)
ShorthandNames == {"lineBreak", "br", "tab", "word", "digit", "whitespace"}
ShorthandStatic(m) ==
  CASE m \in {"lineBreak", "br"} -> StaticLinebreak
    [] m = "tab" -> StaticTab
    [] m = "word" -> StaticWord
    [] m = "digit" -> StaticDigit
    [] m = "whitespace" -> StaticWhitespace
ShorthandMethod(h, i, m) ==
  Alloc(h, From(setNode(setSuffix(h[i], <<>>),
                        then_(getNode(h[i]), ShorthandStatic(m).node))))

\* (faulty variant) addFlag appends the flag to the flags.
AddFlagAppends(h, i, flag) ==
  Alloc(h, From([h[i] EXCEPT !.flags = h[i].flags \o flag]))
\* (faulty variant) removeFlag calls addFlags.
RemoveFlagAdds(h, i, flag) == Alloc(h, From(addFlags(h[i], flag)))
\* addFlag(flag = "") / removeFlag(flag)
AddFlagMethod(h, i, flag) == Alloc(h, From(addFlags(h[i], flag)))
RemoveFlagMethod(h, i, flag) == Alloc(h, From(removeFlags(h[i], flag)))
\* withAnyCase(enable), stopAtFirst(enable), searchOneLine(enable)
WithAnyCaseMethod(h, i, enable) ==
  IF enable THEN AddFlagMethod(h, i, <<"i">>)
  ELSE RemoveFlagMethod(h, i, <<"i">>)
StopAtFirstMethod(h, i, enable) ==
  IF enable THEN AddFlagMethod(h, i, <<"g">>)
  ELSE RemoveFlagMethod(h, i, <<"g">>)
\* (faulty variant) searchOneLine(enable) adds `m` when enabled.
SearchOneLineAdds(h, i, enable) ==
  IF enable THEN AddFlagMethod(h, i, <<"m">>)
  ELSE RemoveFlagMethod(h, i, <<"m">>)
SearchOneLineMethod(h, i, enable) ==
  IF enable THEN RemoveFlagMethod(h, i, <<"m">>)
  ELSE AddFlagMethod(h, i, <<"m">>)

\* A JavaScript number: n/d (d > 0), the integer hi * 2^16 + lo
\* (0 <= lo < 2^16), NaN.
JsNumber(n, d) == [k |-> "num", n |-> n, d |-> d]
JsBig(hi, lo) == [k |-> "big", hi |-> hi, lo |-> lo]
JsNaN == [k |-> "nan"]
\* x | 0: the fraction is dropped, the integer is taken modulo 2^32 into
\* -2^31 .. 2^31 - 1; NaN gives 0.
ToInt32(x) ==
  IF x.k = "nan" THEN 0
  ELSE IF x.k = "big"
    THEN LET h == x.hi % 65536
         IN (IF h >= 32768 THEN h - 65536 ELSE h) * 65536 + x.lo
  ELSE IF x.n >= 0 THEN x.n \div x.d ELSE 0 - ((0 - x.n) \div x.d)
\* x != null ? x | 0 : void 0
OptInt(x) == IF x.k = "null" THEN None ELSE Some(ToInt32(x))

\* (faulty variant) repeat(min, max) passes max for min and min for max.
RepeatSwapped(h, i, min, max) ==
  Alloc(h, From(setNode(h[i], repeat(getNode(h[i]), OptInt(max),
                                     OptInt(min)))))
\* repeat(min, max), repeatExactly(n), oneOrMore(), zeroOrMore(lazy)
RepeatMethod(h, i, min, max) ==
  Alloc(h, From(setNode(h[i], repeat(getNode(h[i]), OptInt(min),
                                     OptInt(max)))))
RepeatExactlyMethod(h, i, n) ==
  Alloc(h, From(setNode(h[i], repeatExact(getNode(h[i]), OptInt(n)))))
OneOrMoreMethod(h, i) ==
  Alloc(h, From(setNode(h[i], oneOrMore(getNode(h[i])))))
\* zeroOrMore(lazy): setNode(root, zeroOrMore(node), lazy).  lazy is a third
\* argument of setNode, which takes two; zeroOrMore is called without it.
ZeroOrMoreMethod(h, i, lazy) ==
  Alloc(h, From(setNode(h[i], zeroOrMore(getNode(h[i]), FALSE))))

\* [value].flat().join(""): the characters of a string or of a list of
\* strings.
FlatJoin(value) == IF value.k = "list" THEN Concat(value.xs) ELSE value.s

\* anything(lazy = false), anythingBut(value, lazy = false), something(),
\* somethingBut(value), anyOf(value), someOf(value), oneOf(value)
AnythingMethod(h, i, lazy) ==
  Alloc(h, From(setNode(h[i], anything(getNode(h[i]), lazy))))
AnythingButMethod(h, i, value, lazy) ==
  Alloc(h, From(setNode(h[i], anythingBut(getNode(h[i]), FlatJoin(value),
                                          lazy))))
SomethingMethod(h, i) ==
  Alloc(h, From(setNode(h[i], something(getNode(h[i])))))
SomethingButMethod(h, i, value) ==
  Alloc(h, From(setNode(h[i], somethingBut(getNode(h[i]), FlatJoin(value)))))
AnyOfMethod(h, i, value) ==
  Alloc(h, From(setNode(h[i], anyOf(getNode(h[i]), FlatJoin(value)))))
SomeOfMethod(h, i, value) ==
  Alloc(h, From(setNode(h[i], someOf(getNode(h[i]), FlatJoin(value)))))
OneOfMethod(h, i, value) ==
  Alloc(h, From(setNode(h[i], oneOf(getNode(h[i]), FlatJoin(value)))))

\* (faulty variant) capture(name) without the receiver's prefix.
CaptureWithoutPrefix(h, i, name) ==
  Alloc(h, From(setNode(setPrefix(h[i], <<>>), group(getNode(h[i]), name))))
\* capture(name) (alias group)
CaptureMethod(h, i, name) ==
  Alloc(h, From(setNode(h[i], group(getNode(h[i]), name))))

\* compile(): the RegExp of the stringified root node.
CompileFails(root) ==
  stringifyFails(root) \/ RegExpFails(stringify(root).flags)
CompileMethod(root) ==
  NewRegExp(stringify(root).source, stringify(root).flags)

(***************************************************************************)
(* test/SolidExpression.test.js: "should build regexp via                  *)
(* SolidExpressions".  The heap after each call of the chain; object 1 is  *)
(* the static Fx.whitespace.                                               *)
(***************************************************************************)
TestExprSource == <<"^", "t", "e", "s", "t", "_", "e", "x", "p", "r", "$">>
HelloText == <<"h", "e", "l", "l", "o">>
HellosName == <<"h", "e", "l", "l", "o", "s">>
WorldGroupName == <<"w", "o", "r", "l", "d", "G", "r", "o", "u", "p">>

\* Fx(/^test_expr$/).maybe(Fx.whitespace): objects 2 and 3.
TestMaybeWhitespace ==
  LET h1 == <<StaticWhitespace>>
      h2 == Alloc(h1, Sx(h1, RegExpValue(TestExprSource, <<>>)))
  IN MaybeMethod(h2, 2, ExprValue(1))
\* Fx("hello").repeat(1, 3).capture("hellos"): objects 4, 5 and 6.
TestHellos ==
  LET h3 == TestMaybeWhitespace
      h4 == Alloc(h3, Sx(h3, StringValue(HelloText)))
      h5 == RepeatMethod(h4, 4, JsNumber(1, 1), JsNumber(3, 1))
  IN CaptureMethod(h5, 5, HellosName)
\* .then(hellos).repeat(1, 4).then(Fx.whitespace.oneOrMore()): objects 7, 8,
\* 9 (the argument) and 10.
TestRepeated ==
  LET h6 == TestHellos
      h7 == ThenMethod(h6, 3, ExprValue(6))
      h8 == RepeatMethod(h7, 7, JsNumber(1, 1), JsNumber(4, 1))
      h9 == OneOrMoreMethod(h8, 1)
  IN ThenMethod(h9, 8, ExprValue(9))
\* Fx("world").or("World").group("worldGroup"): objects 11, 12 and 13.
TestWorldGroup ==
  LET h10 == TestRepeated
      h11 == Alloc(h10, Sx(h10, StringValue(<<"w", "o", "r", "l", "d">>)))
      h12 == OrMethod(h11, 11, StringValue(<<"W", "o", "r", "l", "d">>))
  IN CaptureMethod(h12, 12, WorldGroupName)
\* .maybe(worldGroup).followedBy("!").then(/./): objects 14, 15 and 16.
TestChain ==
  LET h13 == TestWorldGroup
      h14 == MaybeMethod(h13, 10, ExprValue(13))
      h15 == AssertFollowedByMethod(h14, 14, StringValue(<<"!">>))
  IN ThenMethod(h15, 15, RegExpValue(<<".">>, <<>>))
\* regex = fx.compile()
TestRegex == CompileMethod(TestChain[16])
\* The inline snapshot of regex.source.
TestSnapshot ==
  <<"^", "(", "?", ":", "t", "e", "s", "t", "_", "e", "x", "p", "r",
    "(", "?", ":", "\\", "s", ")", "?",
    "(", "?", "<", "h", "e", "l", "l", "o", "s", ">",
    "(", "?", ":", "h", "e", "l", "l", "o", ")", "{", "1", ",", "3", "}", ")",
    ")", "{", "1", ",", "4", "}",
    "(", "?", ":", "\\", "s", ")", "+",
    "(", "?", "<", "w", "o", "r", "l", "d", "G", "r", "o", "u", "p", ">",
    "w", "o", "r", "l", "d", "|", "W", "o", "r", "l", "d", ")", "?",
    "(", "?", "=", "!", ")", ".">>

(***************************************************************************)
(* The values the calls of a run are made with.                            *)
(***************************************************************************)
\* The values an expression is constructed from: Sx(value).
InitValues ==
  {StringValue(<<"a">>), StringValue(<<"a", ".">>),
   RegExpValue(<<"^", "b", "$">>, <<>>), RegExpValue(<<"c", "$">>, <<"m">>),
   NumberValue(<<"7">>), OtherValue, NullValue}
\* The expressions of the heap, as arguments.
Refs(h) == {ExprValue(j) : j \in DOMAIN h}
\* The values passed to then, maybe, or, assertFollowedBy.
StringArg == StringValue(<<"a">>)
RegExpArg == RegExpValue(<<"^", "b", "$">>, <<"m">>)
\* The argument lists of Sx.or and Sx.seq.
StringList == <<StringValue(<<"a">>), StringValue(<<"b">>)>>
MixedList == <<RegExpValue(<<"^", "b", "$">>, <<"m">>), NumberValue(<<"7">>)>>
\* The bounds passed to repeat and the count passed to repeatExactly.
RepeatValues ==
  {<<JsNumber(2, 1), JsNumber(4, 1)>>, <<JsNumber(1, 1), NullValue>>}
RepeatExactlyValues == {JsNumber(3, 1)}
\* The bounds passed to repeat where the coercion and the order of the
\* bounds matter: min < max, min > max, a fraction with no max, a negative
\* min, no min with a fraction, 3 * 2^30 (negative as a 32-bit integer).
QuantBounds ==
  {<<JsNumber(2, 1), JsNumber(4, 1)>>, <<JsNumber(4, 1), JsNumber(2, 1)>>,
   <<JsNumber(5, 2), NullValue>>, <<JsNumber(0 - 1, 1), JsNumber(2, 1)>>,
   <<NullValue, JsNumber(7, 2)>>, <<JsBig(49152, 0), NullValue>>}
\* The counts passed to repeatExactly: an integer, a fraction, a negative
\* fraction, NaN, 2^32 + 2.
QuantCounts ==
  {JsNumber(3, 1), JsNumber(7, 2), JsNumber(0 - 5, 2), JsNaN,
   JsBig(65536, 2)}
\* The flags passed to addFlag and removeFlag.
AddFlagValues == {<<"m">>, <<"g", "g">>, <<"i", "s">>}
RemoveFlagValues == {<<"g">>, <<"g", "i">>}
\* The boundaries passed to charOfRanges: pairs, an odd number of boundaries
\* over two arrays, a pair with the low end after the high end after a valid
\* pair.
RangeInputs ==
  {<<<<<<"0">>, <<"9">>>>, <<<<"a">>, <<"f">>>>>>,
   <<<<<<"0">>, <<"9">>>>, <<<<"a">>>>>>,
   <<<<<<"0">>, <<"9">>>>, <<<<"z">>, <<"a">>>>>>}
\* The boundaries passed to charNotOfRanges: a pair of equal ends, one
\* boundary, a pair with the low end after the high end.
NegatedRangeInputs ==
  {<<<<<<"a">>, <<"a">>>>>>,
   <<<<<<"a">>>>>>,
   <<<<<<"f">>, <<"a">>>>>>}
\* The characters passed to anythingBut, somethingBut, anyOf, someOf, oneOf:
\* a string, a list of strings.
CharValues ==
  {StringValue(<<"a", "b">>),
   [k |-> "list", xs |-> <<<<"a">>, <<"b", "a">>>>]}
\* The boundaries passed to charOfRanges.
HexRanges == <<<<<<"0">>, <<"9">>>>, <<<<"a">>, <<"f">>>>>>

(***************************************************************************)
(* The state machine: one action for each call.  An action is given the    *)
(* set its arguments are drawn from.                                       *)
(***************************************************************************)
NoOut == [source |-> <<>>, flags |-> <<>>]

\* The record of a call: the method, the receiver, the argument, the object
\* returned (0: none), the error thrown and the RegExp returned by compile.
Call(op, this, arg, res, err, out) ==
  [op |-> op, this |-> this, arg |-> arg, res |-> res, err |-> err,
   out |-> out]

\* The call an object was returned by.
Made(op, this, arg) == [op |-> op, this |-> this, arg |-> arg]

\* A call that returns a new object: h2 is the heap after it.
Returns(op, i, arg, h2) ==
  /\ Len(heap) < MaxObjs
  /\ heap' = h2
  /\ made' = Append(made, Made(op, i, arg))
  /\ call' = Call(op, i, arg, Len(h2), "none", NoOut)
  /\ UNCHANGED warned

\* A call that throws: no object is returned.
Throws(op, i, arg, err) ==
  /\ call' = Call(op, i, arg, 0, err, NoOut)
  /\ UNCHANGED <<heap, made, warned>>

\* The state after the construction of the first expression, Sx(v).
Constructed(v) ==
  /\ heap = <<Sx(<<>>, v)>>
  /\ made = <<Made("Sx", 0, v)>>
  /\ call = Call("Sx", 0, v, 1, "none", NoOut)
  /\ warned = SxWarns(v)

Init == \E v \in InitValues : Constructed(v)

\* process.env.NODE_ENV, read by Sx at each call.
NodeEnvs == {"production", "development"}

\* Sx(value): the expression of the value, or SolidExpression.empty (and,
\* outside production, the warning of warnArgType, which its latch lets
\* through once).  An object Sx returns again is one more entry of the heap
\* with the same root node.
SxCall(Values) ==
  \E v \in Values, env \in NodeEnvs :
    /\ Len(heap) < MaxObjs
    /\ heap' = Alloc(heap, Sx(heap, v))
    /\ made' = Append(made, Made("Sx", 0, v))
    /\ call' = Call("Sx", 0, v, Len(heap) + 1, "none", NoOut)
    /\ warned' = (warned \/ (SxWarns(v) /\ env # "production"))

\* Sx.of(value) = SolidExpression.of(value)
OfCall(Values) ==
  \E v \in Values :
    Returns("Sx.of", 0, v, Alloc(heap, Of(heap, v)))

\* Sx.whitespace, Sx.digit, Sx.tab, Sx.word, Sx.linebreak, Sx.empty: the
\* static primitive, one more entry of the heap with its root node.
PrimitiveNames == {"whitespace", "digit", "tab", "word", "linebreak", "empty"}
PrimitiveRoot(name) ==
  IF name = "empty" THEN StaticEmpty
  ELSE IF name = "linebreak" THEN StaticLinebreak
  ELSE ShorthandStatic(name)
Primitive(Names) ==
  \E name \in Names :
    Returns("Sx.primitive", 0, [k |-> "static", name |-> name],
            Alloc(heap, PrimitiveRoot(name)))

StaticOr(Lists) ==
  \E xs \in Lists :
    Returns("Sx.or", 0, [k |-> "list", xs |-> xs],
            Alloc(heap, StaticOrRoot(heap, xs)))

StaticSeq(Lists) ==
  \E xs \in Lists :
    Returns("Sx.seq", 0, [k |-> "list", xs |-> xs],
            Alloc(heap, StaticSeqRoot(heap, xs)))

AssertStartOfLine ==
  \E i \in DOMAIN heap, enable \in BOOLEAN :
    Returns("assertStartOfLine", i, [k |-> "bool", b |-> enable],
            assertStartOfLine(heap, i, enable))

AssertEndOfLine ==
  \E i \in DOMAIN heap, enable \in BOOLEAN :
    Returns("assertEndOfLine", i, [k |-> "bool", b |-> enable],
            assertEndOfLine(heap, i, enable))

Then(Values) ==
  \E i \in DOMAIN heap, v \in Values :
    Returns("then", i, v, ThenMethod(heap, i, v))

Maybe(Values) ==
  \E i \in DOMAIN heap, v \in Values :
    Returns("maybe", i, v, MaybeMethod(heap, i, v))

Or(Values) ==
  \E i \in DOMAIN heap, v \in Values :
    Returns("or", i, v, OrMethod(heap, i, v))

AssertFollowedBy(Values) ==
  \E i \in DOMAIN heap, v \in Values :
    Returns("assertFollowedBy", i, v, AssertFollowedByMethod(heap, i, v))

AssertNotFollowedBy(Values) ==
  \E i \in DOMAIN heap, v \in Values :
    Returns("assertNotFollowedBy", i, v,
            AssertNotFollowedByMethod(heap, i, v))

Shorthand ==
  \E i \in DOMAIN heap, m \in ShorthandNames :
    Returns(m, i, NoArg, ShorthandMethod(heap, i, m))

CharOfRanges(Ranges) ==
  \E i \in DOMAIN heap, rs \in Ranges :
    LET arg == [k |-> "ranges", rs |-> rs]
    IN IF makeRangesFails(rs) THEN Throws("charOfRanges", i, arg,
                                          "AssertionError")
       ELSE IF rangesFails(makeRanges(rs))
         THEN Throws("charOfRanges", i, arg, "InvalidRangeError")
       ELSE Returns("charOfRanges", i, arg, CharOfRangesMethod(heap, i, rs))

CharNotOfRanges(Ranges) ==
  \E i \in DOMAIN heap, rs \in Ranges :
    LET arg == [k |-> "ranges", rs |-> rs]
    IN IF makeRangesFails(rs) THEN Throws("charNotOfRanges", i, arg,
                                          "AssertionError")
       ELSE IF rangesFails(makeRanges(rs))
         THEN Throws("charNotOfRanges", i, arg, "InvalidRangeError")
       ELSE Returns("charNotOfRanges", i, arg,
                    CharNotOfRangesMethod(heap, i, rs))

Anything ==
  \E i \in DOMAIN heap, lazy \in BOOLEAN :
    Returns("anything", i, [k |-> "bool", b |-> lazy],
            AnythingMethod(heap, i, lazy))

Something ==
  \E i \in DOMAIN heap :
    Returns("something", i, NoArg, SomethingMethod(heap, i))

AnythingBut(Values) ==
  \E i \in DOMAIN heap, v \in Values, lazy \in BOOLEAN :
    Returns("anythingBut", i, [k |-> "chars", v |-> v, b |-> lazy],
            AnythingButMethod(heap, i, v, lazy))

SomethingBut(Values) ==
  \E i \in DOMAIN heap, v \in Values :
    Returns("somethingBut", i, v, SomethingButMethod(heap, i, v))

AnyOf(Values) ==
  \E i \in DOMAIN heap, v \in Values :
    Returns("anyOf", i, v, AnyOfMethod(heap, i, v))

SomeOf(Values) ==
  \E i \in DOMAIN heap, v \in Values :
    Returns("someOf", i, v, SomeOfMethod(heap, i, v))

OneOf(Values) ==
  \E i \in DOMAIN heap, v \in Values :
    Returns("oneOf", i, v, OneOfMethod(heap, i, v))

OneOrMore ==
  \E i \in DOMAIN heap :
    Returns("oneOrMore", i, NoArg, OneOrMoreMethod(heap, i))

ZeroOrMore ==
  \E i \in DOMAIN heap, lazy \in BOOLEAN :
    Returns("zeroOrMore", i, [k |-> "bool", b |-> lazy],
            ZeroOrMoreMethod(heap, i, lazy))

Repeat(Bounds) ==
  \E i \in DOMAIN heap, b \in Bounds :
    Returns("repeat", i, [k |-> "bounds", min |-> b[1], max |-> b[2]],
            RepeatMethod(heap, i, b[1], b[2]))

RepeatExactly(Counts) ==
  \E i \in DOMAIN heap, n \in Counts :
    Returns("repeatExactly", i, [k |-> "bounds", min |-> n, max |-> n],
            RepeatExactlyMethod(heap, i, n))

Capture(Names) ==
  \E i \in DOMAIN heap, name \in Names :
    LET arg == [k |-> "name", s |-> name]
    IN IF groupFails(name) THEN Throws("capture", i, arg,
                                       "InvalidGroupNameError")
       ELSE Returns("capture", i, arg, CaptureMethod(heap, i, name))

AddFlag(Flags) ==
  \E i \in DOMAIN heap, f \in Flags :
    Returns("addFlag", i, [k |-> "flag", s |-> f], AddFlagMethod(heap, i, f))

RemoveFlag(Flags) ==
  \E i \in DOMAIN heap, f \in Flags :
    Returns("removeFlag", i, [k |-> "flag", s |-> f],
            RemoveFlagMethod(heap, i, f))

WithAnyCase ==
  \E i \in DOMAIN heap, enable \in BOOLEAN :
    Returns("withAnyCase", i, [k |-> "bool", b |-> enable],
            WithAnyCaseMethod(heap, i, enable))

StopAtFirst ==
  \E i \in DOMAIN heap, enable \in BOOLEAN :
    Returns("stopAtFirst", i, [k |-> "bool", b |-> enable],
            StopAtFirstMethod(heap, i, enable))

SearchOneLine ==
  \E i \in DOMAIN heap, enable \in BOOLEAN :
    Returns("searchOneLine", i, [k |-> "bool", b |-> enable],
            SearchOneLineMethod(heap, i, enable))

\* compile(): returns a RegExp, or throws what stringify or RegExp throws.
Compile ==
  \E i \in DOMAIN heap :
    /\ call.op # "compile"
    /\ IF stringifyFails(heap[i])
         THEN Throws("compile", i, NoArg, "UnsupportedQuantifierRangeError")
       ELSE IF RegExpFails(stringify(heap[i]).flags)
         THEN Throws("compile", i, NoArg, "SyntaxError")
       ELSE /\ call' = Call("compile", i, NoArg, 0, "none",
                            CompileMethod(heap[i]))
            /\ UNCHANGED <<heap, made, warned>>

(***************************************************************************)
(* Spec: the fluent operations, each deriving a new expression from the    *)
(* expressions made so far.                                                *)
(***************************************************************************)
Next ==
  \/ Then({StringArg, RegExpArg} \cup Refs(heap))
  \/ Maybe({StringArg} \cup Refs(heap))
  \/ Or({StringArg} \cup Refs(heap))
  \/ AssertStartOfLine
  \/ AssertEndOfLine
  \/ Repeat({<<JsNumber(2, 1), JsNumber(4, 1)>>})
  \/ RepeatExactly(RepeatExactlyValues)
  \/ Capture({Undef})
  \/ CharOfRanges({HexRanges})
  \/ AddFlag({<<"m">>})
  \/ RemoveFlag({<<"g">>})

Spec == Init /\ [][Next]_vars

(***************************************************************************)
(* SpecAnchor: the operations that append to the pattern, and the anchors. *)
(***************************************************************************)
NextAnchor ==
  \/ Then({StringArg, RegExpArg, OtherValue} \cup Refs(heap))
  \/ Maybe({StringArg, RegExpArg, OtherValue} \cup Refs(heap))
  \/ Shorthand
  \/ AssertStartOfLine
  \/ AssertEndOfLine

SpecAnchor == Init /\ [][NextAnchor]_vars

(***************************************************************************)
(* SpecGroup: sequences, alternations and quantifiers.                     *)
(***************************************************************************)
NextGroup ==
  \/ Then({StringArg, RegExpArg} \cup Refs(heap))
  \/ Or({StringArg, RegExpArg} \cup Refs(heap))
  \/ StaticOr({StringList, MixedList})
  \/ Repeat(RepeatValues)
  \/ RepeatExactly(RepeatExactlyValues)
  \/ Capture({Undef, <<"w">>})

SpecGroup == Init /\ [][NextGroup]_vars

(***************************************************************************)
(* SpecFlags: the flag operations among node operations.                   *)
(***************************************************************************)
NextFlags ==
  \/ AddFlag(AddFlagValues)
  \/ RemoveFlag(RemoveFlagValues)
  \/ WithAnyCase
  \/ StopAtFirst
  \/ SearchOneLine
  \/ Then({RegExpArg})
  \/ Maybe({StringArg})
  \/ Repeat({<<JsNumber(1, 1), JsNumber(3, 1)>>})
  \/ AssertFollowedBy({StringArg})
  \/ StaticOr({MixedList})
  \/ StaticSeq({MixedList})

SpecFlags == Init /\ [][NextFlags]_vars

(***************************************************************************)
(* SpecExtend: the quantifiers and the operations that append a character  *)
(* set, on expressions with and without an end anchor.                     *)
(***************************************************************************)
NextExtend ==
  \/ AssertEndOfLine
  \/ Repeat({<<JsNumber(2, 1), JsNumber(4, 1)>>})
  \/ RepeatExactly(RepeatExactlyValues)
  \/ OneOrMore
  \/ ZeroOrMore
  \/ Anything
  \/ Something
  \/ AnythingBut({StringValue(<<"a", "b">>)})
  \/ SomethingBut(CharValues)
  \/ AnyOf({StringValue(<<"a", "b">>)})
  \/ SomeOf({StringValue(<<"a", "b">>)})
  \/ OneOf({StringValue(<<"a", "b">>)})
  \/ CharOfRanges({HexRanges})
  \/ CharNotOfRanges({HexRanges})

SpecExtend == Init /\ [][NextExtend]_vars

(***************************************************************************)
(* SpecInput: values of supported and of unsupported types, given to Sx,   *)
(* Sx.of, then, maybe and or.                                              *)
(***************************************************************************)
NextInput ==
  \/ SxCall({StringArg, OtherValue, NullValue})
  \/ OfCall({RegExpArg, OtherValue, NullValue})
  \/ Then({StringArg, OtherValue, NullValue})
  \/ Maybe({OtherValue})
  \/ Or({OtherValue, NullValue})
  \/ Compile

SpecInput == Init /\ [][NextInput]_vars

(***************************************************************************)
(* SpecRanges: character ranges from well-formed and ill-formed boundary   *)
(* lists.                                                                  *)
(***************************************************************************)
NextRanges ==
  \/ CharOfRanges(RangeInputs)
  \/ CharNotOfRanges(NegatedRangeInputs)
  \/ Then({StringArg})
  \/ Compile

SpecRanges == Init /\ [][NextRanges]_vars

(***************************************************************************)
(* SpecQuant: quantifiers from bounds of every kind, and their compiling.  *)
(***************************************************************************)
NextQuant ==
  \/ Repeat(QuantBounds)
  \/ RepeatExactly(QuantCounts)
  \/ Compile

SpecQuant == Init /\ [][NextQuant]_vars

(***************************************************************************)
(* SpecSanitize: an expression constructed from any short string or        *)
(* regular expression, compiled and extended.                              *)
(***************************************************************************)
Alphabet == {"a", ".", "^", "$", "\\"}
Texts == UNION {[1..n -> Alphabet] : n \in 0..MaxStrLen}

RECURSIVE WellEscaped(_)
\* No backslash of the text is left without the character it escapes.
WellEscaped(s) ==
  IF s = <<>> THEN TRUE
  ELSE IF Head(s) = "\\" THEN Len(s) >= 2 /\ WellEscaped(Tail(Tail(s)))
  ELSE WellEscaped(Tail(s))

\* The sources a native RegExp can have: the empty pattern reads (?:).
RegExpSources ==
  {s \in Texts : s # <<>> /\ WellEscaped(s)} \cup {<<"(", "?", ":", ")">>}

SanitizerInputs ==
  {StringValue(s) : s \in Texts}
  \cup {RegExpValue(s, f) : s \in RegExpSources, f \in {<<>>, <<"i", "m">>}}

InitSanitize == \E v \in SanitizerInputs : Constructed(v)

NextSanitize ==
  \/ Compile
  \/ Then({StringArg})

SpecSanitize == InitSanitize /\ [][NextSanitize]_vars

(***************************************************************************)
(* SpecScenario: the operations of the test chain (quantifiers, capturing  *)
(* groups, look-ahead) on expressions with and without a start anchor.     *)
(***************************************************************************)
NextScenario ==
  \/ Then({StringArg})
  \/ Maybe({StringArg} \cup Refs(heap))
  \/ Or({StringArg})
  \/ Repeat({<<JsNumber(1, 1), JsNumber(3, 1)>>,
             <<JsNumber(1, 1), JsNumber(4, 1)>>})
  \/ Capture({Undef, <<"w">>})
  \/ AssertFollowedBy({StringArg})
  \/ Compile

SpecScenario == Init /\ [][NextScenario]_vars

(***************************************************************************)
(* SpecApi: the constructors of the public API (Sx, Sx.of, Sx.or, Sx.seq)  *)
(* and fluent methods on what they return.                                 *)
(***************************************************************************)
\* A RegExp whose source has two anchors at each end.
DoubleAnchored == RegExpValue(<<"^", "^", "b", "$", "$">>, <<>>)

NextApi ==
  \/ SxCall({DoubleAnchored, StringValue(<<"^", "$">>)} \cup Refs(heap))
  \/ OfCall({RegExpArg, DoubleAnchored})
  \/ StaticOr({MixedList})
  \/ StaticSeq({MixedList})
  \/ AssertStartOfLine
  \/ AssertEndOfLine
  \/ Then({RegExpArg} \cup Refs(heap))
  \/ Or({DoubleAnchored, StringArg})
  \/ Repeat({<<JsNumber(2, 1), JsNumber(4, 1)>>})
  \/ Capture({Undef})

SpecApi == Init /\ [][NextApi]_vars

(***************************************************************************)
(* SpecAtomic: the quantifiers on the static primitives, on one-character  *)
(* and longer literals, on groups and on character classes.                *)
(***************************************************************************)
\* The bounds with a shorthand token, and bounds without one.
ShorthandBounds ==
  {<<JsNumber(1, 1), NullValue>>, <<JsNumber(0, 1), NullValue>>,
   <<JsNumber(0, 1), JsNumber(1, 1)>>, <<JsNumber(2, 1), JsNumber(4, 1)>>}

NextAtomic ==
  \/ Primitive({"whitespace", "digit"})
  \/ Maybe({StringArg} \cup Refs(heap))
  \/ OneOrMore
  \/ ZeroOrMore
  \/ Repeat(ShorthandBounds)
  \/ RepeatExactly({JsNumber(8, 1)})
  \/ Capture({Undef})
  \/ CharOfRanges({HexRanges})

SpecAtomic == Init /\ [][NextAtomic]_vars

(***************************************************************************)
(* SpecEmpty: composition from the empty expression (Sx(), Sx.empty) and   *)
(* from expressions with content, then quantified.                         *)
(***************************************************************************)
NextEmpty ==
  \/ Primitive({"empty"})
  \/ Then({StringArg, RegExpArg, StringValue(<<"a", ".">>)} \cup Refs(heap))
  \/ CharOfRanges({HexRanges})
  \/ OneOf({StringValue(<<"a", "b">>)})
  \/ RepeatExactly({JsNumber(8, 1)})
  \/ OneOrMore
  \/ Capture({Undef})

SpecEmpty == Init /\ [][NextEmpty]_vars

(***************************************************************************)
(* SpecNumber: expressions constructed from numbers, compiled and          *)
(* extended.                                                               *)
(***************************************************************************)
\* Numbers, by the text of Number.prototype.toString: 7, 15, -1, 1.5, 0.25,
\* 1e+21, 1e-7.
NumberInputs ==
  {NumberValue(<<"7">>), NumberValue(<<"1", "5">>), NumberValue(<<"-", "1">>),
   NumberValue(<<"1", ".", "5">>), NumberValue(<<"0", ".", "2", "5">>),
   NumberValue(<<"1", "e", "+", "2", "1">>),
   NumberValue(<<"1", "e", "-", "7">>)}

InitNumber == \E v \in NumberInputs : Constructed(v)

NextNumber ==
  \/ SxCall(NumberInputs)
  \/ Then({NumberValue(<<"1", ".", "5">>)})
  \/ OneOrMore
  \/ Compile

SpecNumber == InitNumber /\ [][NextNumber]_vars

(***************************************************************************)
(* SpecFluent: every fluent method, on an expression constructed with and  *)
(* without anchors and on the expressions derived from it; the arguments   *)
(* carry anchors and flags of their own.                                   *)
(***************************************************************************)
FluentValues ==
  {StringValue(<<"a">>), RegExpValue(<<"^", "b", "$">>, <<>>),
   RegExpValue(<<"c", "$">>, <<"m">>)}

InitFluent == \E v \in FluentValues : Constructed(v)

\* The call A is made on the expression the call before it returned, as in
\* a chain e.f().g().h().
Chained(A) == A /\ call'.this = Len(heap)

NextFluent ==
  \/ Chained(Then({RegExpArg} \cup Refs(heap)))
  \/ Chained(Maybe({RegExpArg}))
  \/ Chained(Or({RegExpArg}))
  \/ Chained(AssertFollowedBy({RegExpArg}))
  \/ Chained(AssertNotFollowedBy({RegExpArg}))
  \/ Chained(AssertStartOfLine)
  \/ Chained(AssertEndOfLine)
  \/ Chained(Shorthand)
  \/ Chained(Anything)
  \/ Chained(Something)
  \/ Chained(AnythingBut({StringValue(<<"a", "b">>)}))
  \/ Chained(SomethingBut({StringValue(<<"a", "b">>)}))
  \/ Chained(AnyOf({StringValue(<<"a", "b">>)}))
  \/ Chained(SomeOf({StringValue(<<"a", "b">>)}))
  \/ Chained(OneOf({StringValue(<<"a", "b">>)}))
  \/ Chained(CharOfRanges({HexRanges}))
  \/ Chained(CharNotOfRanges({HexRanges}))
  \/ Chained(Repeat({<<JsNumber(2, 1), JsNumber(4, 1)>>}))
  \/ Chained(RepeatExactly(RepeatExactlyValues))
  \/ Chained(OneOrMore)
  \/ Chained(ZeroOrMore)
  \/ Chained(Capture({<<"w">>}))
  \/ Chained(AddFlag({<<"m">>}))
  \/ Chained(RemoveFlag({<<"g">>}))
  \/ Chained(WithAnyCase)
  \/ Chained(StopAtFirst)
  \/ Chained(SearchOneLine)

SpecFluent == InitFluent /\ [][NextFluent]_vars

(***************************************************************************)
(* Properties.                                                             *)
(***************************************************************************)
\* The methods that append to the pattern through then / maybe.
AppendOps == {"then", "maybe"} \cup ShorthandNames

\* C1 (SpecAnchor).  Anchor clearing: every expression returned by then,
\* maybe or one of the then-based shorthands (lineBreak, br, tab, word,
\* digit, whitespace) has an empty suffix, whatever the receiver's suffix
\* and the argument were, so its source ends with the rendered node and has
\* nothing after a `$`.
AnchorCleared ==
  \A i \in DOMAIN heap :
    made[i].op \in AppendOps =>
      /\ heap[i].suffix = <<>>
      /\ stringify(heap[i]).source = heap[i].prefix \o Render(heap[i].node)

\* C1 witness: then(/^b$/m) was called on an expression returned by
\* assertEndOfLine(true), whose suffix is `$`.
AnchorClearedWitness ==
  \E i \in DOMAIN heap :
    /\ made[i].op = "then" /\ made[i].arg = RegExpArg
    /\ made[made[i].this].op = "assertEndOfLine"
    /\ heap[made[i].this].suffix = <<"$">>

\* C2 (Spec).  Persistence: a call changes no existing object; every
\* expression keeps its root node, hence compiles to the same source and
\* flags, and the call that made it, through every later call.
Persistence ==
  [][\A i \in DOMAIN heap :
       /\ i \in DOMAIN heap'
       /\ heap'[i] = heap[i]
       /\ CompileMethod(heap'[i]) = CompileMethod(heap[i])]_vars

\* C2 witness: the first expression was the receiver of an earlier call and
\* is now receiver and argument of the same call.
PersistenceWitness ==
  /\ Len(heap) = 3
  /\ made[2].this = 1
  /\ made[3].this = 1 /\ made[3].arg = ExprValue(1)
  /\ heap[2] # heap[1] /\ heap[3] # heap[1]

\* The quantifier a call of repeat / repeatExactly asks for, as text.
AskedQuantifier(arg) ==
  IF arg.max.k = "null"
    THEN (IF ToInt32(arg.min) = 1 THEN <<"+">>
          ELSE IF ToInt32(arg.min) = 0 THEN <<"*">>
          ELSE <<"{">> \o IntText(ToInt32(arg.min)) \o <<",", "}">>)
  ELSE IF arg.min = arg.max
    THEN <<"{">> \o IntText(ToInt32(arg.min)) \o <<"}">>
  ELSE <<"{">> \o IntText(ToInt32(arg.min)) \o <<",">>
       \o IntText(ToInt32(arg.max)) \o <<"}">>

\* The node is a sequence of two or more parts.
IsLongSequence(n) == n.t = "Sequence" /\ Len(n.items) >= 2

\* C3 (SpecGroup).  Grouping correctness: when repeat or repeatExactly is
\* called on an expression whose node is a sequence of two or more parts,
\* the source of the result is the prefix, then the whole rendered sequence
\* inside (?: ), then the quantifier asked for, then the suffix.
GroupingCorrect ==
  \A i \in DOMAIN heap :
    (made[i].op \in {"repeat", "repeatExactly"}
     /\ IsLongSequence(heap[made[i].this].node)) =>
      stringify(heap[i]).source =
        heap[i].prefix \o <<"(", "?", ":">>
        \o Render(heap[made[i].this].node) \o <<")">>
        \o AskedQuantifier(made[i].arg) \o heap[i].suffix

\* C3 witness: Sx("a").then("a").repeat(2, 4) reads (?:aa){2,4}.
GroupingCorrectWitness ==
  \E i \in DOMAIN heap :
    /\ made[i].op = "repeat"
    /\ IsLongSequence(heap[made[i].this].node)
    /\ stringify(heap[i]).source =
         <<"(", "?", ":", "a", "a", ")", "{", "2", ",", "4", "}">>

\* A node as one part of a concatenation: an alternation inside (?: ).
AsPart(n) ==
  IF n.t = "Alternation" THEN <<"(", "?", ":">> \o Render(n) \o <<")">>
  ELSE Render(n)
\* The receiver's node and the argument's node of the call that made i.
ReceiverNode(i) == heap[made[i].this].node
ArgNode(i) == Of(heap, made[i].arg).node

RECURSIVE AllLiteral(_)
\* The regex source consists of literal characters only: every
\* metacharacter is the second character of a backslash escape, and a
\* backslash escapes nothing but a metacharacter.
AllLiteral(src) ==
  IF src = <<>> THEN TRUE
  ELSE IF Head(src) = "\\"
    THEN Len(src) >= 2 /\ src[2] \in MetaChars /\ AllLiteral(Tail(Tail(src)))
  ELSE Head(src) \notin MetaChars /\ AllLiteral(Tail(src))

RECURSIVE Matched(_)
\* The string a source of literal characters matches.
Matched(src) ==
  IF src = <<>> THEN <<>>
  ELSE IF Head(src) = "\\" /\ Len(src) >= 2
    THEN <<src[2]>> \o Matched(Tail(Tail(src)))
  ELSE <<Head(src)>> \o Matched(Tail(src))

EmptyPattern == <<"(", "?", ":", ")">>

\* C5 (SpecSanitize).  String escaping: the expression Sx(s) of a string s
\* holds an escaped literal (sanitize = true); its source consists of
\* literal characters only, every metacharacter of s escaped, and the one
\* string it matches is s; compile() returns that source ((?:) for the
\* empty string).
StringEscaped ==
  \A i \in DOMAIN heap :
    (made[i].op = "Sx" /\ made[i].arg.k = "string") =>
      LET s == made[i].arg.s
          src == stringify(heap[i]).source
      IN /\ AllLiteral(src)
         /\ Matched(src) = s
         /\ s # <<>> => heap[i].node.t = "Literal" /\ heap[i].node.escaped
         /\ (call.op = "compile" /\ call.this = i) =>
              /\ call.err = "none"
              /\ call.out.source = IF s = <<>> THEN EmptyPattern ELSE src

\* C5 witness: Sx(".$\") was compiled, to \.\$\\ .
StringEscapedWitness ==
  /\ call.op = "compile"
  /\ made[call.this] = Made("Sx", 0, StringValue(<<".", "$", "\\">>))
  /\ call.out.source = <<"\\", ".", "\\", "$", "\\", "\\">>

\* C6 (SpecSanitize).  RegExp absorption round trip: the expression Sx(r) of
\* a native RegExp r has prefix `^` exactly when r's source starts with `^`
\* and suffix `$` exactly when it ends with `$`; its node holds the rest of
\* the source, unescaped; and compile() returns r's source ((?:) for the
\* empty regex, which is absorbed as the empty source).
RegExpRoundTrip ==
  \A i \in DOMAIN heap :
    (made[i].op = "Sx" /\ made[i].arg.k = "regexp") =>
      LET r == made[i].arg.s
          source == IF r = EmptyPattern THEN <<>> ELSE r
          rest == IF heap[i].node.t = "Empty" THEN <<>> ELSE heap[i].node.src
      IN /\ heap[i].prefix = (IF StartsWith(r, "^") THEN <<"^">> ELSE <<>>)
         /\ heap[i].suffix = (IF EndsWith(r, "$") THEN <<"$">> ELSE <<>>)
         /\ heap[i].node.t \in {"Empty", "Literal"}
         /\ heap[i].node.t = "Literal" => ~heap[i].node.escaped
         /\ heap[i].prefix \o rest \o heap[i].suffix = source
         /\ (call.op = "compile" /\ call.this = i) =>
              call.err = "none" /\ call.out.source = r

\* C6 witness: Sx(/^a$/) was compiled, to ^a$ .
RegExpRoundTripWitness ==
  /\ call.op = "compile"
  /\ made[call.this] = Made("Sx", 0, RegExpValue(<<"^", "a", "$">>, <<>>))
  /\ heap[call.this].prefix = <<"^">> /\ heap[call.this].suffix = <<"$">>
  /\ heap[call.this].node = Literal(<<"a">>, FALSE)
  /\ call.out.source = <<"^", "a", "$">>

\* The methods that set the flags.
FlagOps ==
  {"addFlag", "removeFlag", "withAnyCase", "stopAtFirst", "searchOneLine"}

RECURSIVE FlagOrigin(_)
\* The expression i got its flags from: i itself when it was constructed or
\* returned by a flag method, else the origin of the receiver it was
\* derived from.
FlagOrigin(i) ==
  IF made[i].this = 0 \/ made[i].op \in FlagOps THEN i
  ELSE FlagOrigin(made[i].this)

\* C7 (SpecFlags).  RegExp flag carry-over: an expression constructed from a
\* RegExp r, and every expression derived from it by node operations only,
\* has exactly r's flags and compiles with exactly them; one started from a
\* flag-less RegExp compiles without `g`.
RegExpFlagsCarried ==
  \A i \in DOMAIN heap :
    LET o == FlagOrigin(i)
    IN (made[o].op = "Sx" /\ made[o].arg.k = "regexp") =>
         /\ heap[i].flags = made[o].arg.flags
         /\ ~CompileFails(heap[i])
         /\ CharsOf(CompileMethod(heap[i]).flags) = CharsOf(made[o].arg.flags)
         /\ made[o].arg.flags = <<>> =>
              "g" \notin CharsOf(CompileMethod(heap[i]).flags)

\* C7 witness: Sx(/^b$/).maybe("a").repeat(1, 3) compiles without flags.
RegExpFlagsCarriedWitness ==
  /\ Len(heap) = 3
  /\ made[1].arg = RegExpValue(<<"^", "b", "$">>, <<>>)
  /\ made[2].op = "maybe" /\ made[2].this = 1
  /\ made[3].op = "repeat" /\ made[3].this = 2
  /\ CompileMethod(heap[3]).flags = <<>>

\* The static primitives.
Statics ==
  {StaticEmpty, StaticWhitespace, StaticDigit, StaticTab, StaticWord,
   StaticLinebreak}

FlagsDistinct == \A i \in DOMAIN heap : NoDuplicates(heap[i].flags)

\* C9 witness: addFlag("gg") was called on an expression that has `g`.
FlagsDistinctWitness ==
  \E i \in DOMAIN heap :
    /\ made[i].op = "addFlag" /\ made[i].arg.s = <<"g", "g">>
    /\ "g" \in CharsOf(heap[made[i].this].flags)
    /\ "g" \in CharsOf(heap[i].flags)

\* C10 (SpecFlags).  Flag idempotence: addFlag(f) on the result of
\* addFlag(f), and removeFlag(f) on the result of removeFlag(f), return the
\* same flags; addFlag of flags all present and removeFlag of flags all
\* absent return the receiver's flags.
FlagsIdempotent ==
  \A i \in DOMAIN heap :
    made[i].op \in {"addFlag", "removeFlag"} =>
      LET e == made[i].this
          f == CharsOf(made[i].arg.s)
          has == CharsOf(heap[e].flags)
      IN /\ made[e] = [made[i] EXCEPT !.this = made[e].this] =>
              heap[i].flags = heap[e].flags
         /\ (made[i].op = "addFlag" /\ f \subseteq has) =>
              heap[i].flags = heap[e].flags
         /\ (made[i].op = "removeFlag" /\ f \cap has = {}) =>
              heap[i].flags = heap[e].flags

\* C10 witness: e.addFlag("is").addFlag("is") for an e without `s`.
FlagsIdempotentWitness ==
  \E i \in DOMAIN heap :
    /\ made[i].op = "addFlag" /\ made[i].arg.s = <<"i", "s">>
    /\ made[made[i].this].op = "addFlag"
    /\ made[made[i].this].arg.s = <<"i", "s">>
    /\ "s" \notin CharsOf(heap[made[made[i].this].this].flags)
    /\ heap[i].flags = heap[made[i].this].flags

\* The operations that extend the pattern: the quantifiers, and the
\* operations that append a character set.
ExtendOps ==
  {"repeat", "repeatExactly", "oneOrMore", "zeroOrMore", "anything",
   "something", "anythingBut", "somethingBut", "anyOf", "someOf", "oneOf",
   "charOfRanges", "charNotOfRanges"}

\* C11 as claimed (SpecExtend): every expression returned by a quantifier
\* or by an operation that appends a character set, on a receiver whose
\* suffix is `$`, has an empty suffix.
ExtendClearsSuffix ==
  \A i \in DOMAIN heap :
    (made[i].op \in ExtendOps /\ heap[made[i].this].suffix = <<"$">>) =>
      heap[i].suffix = <<>>

\* C14 as claimed (SpecExtend): zeroOrMore(true) returns the receiver's node
\* under a lazy unbounded quantifier, rendered with `*?`; zeroOrMore(false)
\* returns the greedy one, rendered with `*`.
ZeroOrMoreLazy ==
  \A i \in DOMAIN heap :
    made[i].op = "zeroOrMore" =>
      /\ heap[i].node =
           Quantified(heap[made[i].this].node, Some(0), None, made[i].arg.b)
      /\ EndsWith(Render(heap[i].node), IF made[i].arg.b THEN "?" ELSE "*")

\* The flags of expression i other than the flag f.
OtherFlags(i, f) == CharsOf(heap[i].flags) \ {f}

\* C12 as claimed (SpecFlags): stopAtFirst(true) returns an expression
\* without the flag `g`, stopAtFirst(false) one with it; the other flags are
\* those of the receiver.
StopAtFirstDropsG ==
  \A i \in DOMAIN heap :
    made[i].op = "stopAtFirst" =>
      /\ made[i].arg.b <=> "g" \notin CharsOf(heap[i].flags)
      /\ OtherFlags(i, "g") = OtherFlags(made[i].this, "g")

\* C13 (SpecFlags).  Flag toggles: the result of withAnyCase(enable) has
\* the flag `i` exactly when enable is true, the result of
\* searchOneLine(enable) has the flag `m` exactly when enable is false; the
\* other flags, the node, the prefix and the suffix are the receiver's.
FlagToggles ==
  \A i \in DOMAIN heap :
    made[i].op \in {"withAnyCase", "searchOneLine"} =>
      LET e == made[i].this
          f == IF made[i].op = "withAnyCase" THEN "i" ELSE "m"
          on == IF made[i].op = "withAnyCase" THEN made[i].arg.b
                ELSE ~made[i].arg.b
      IN /\ on <=> f \in CharsOf(heap[i].flags)
         /\ OtherFlags(i, f) = OtherFlags(e, f)
         /\ heap[i].node = heap[e].node
         /\ heap[i].prefix = heap[e].prefix
         /\ heap[i].suffix = heap[e].suffix

\* C13 witness: e.withAnyCase(false).searchOneLine(false) for an e with the
\* flags `gi`: the result has `g` and `m`.
FlagTogglesWitness ==
  \E i \in DOMAIN heap :
    /\ made[i].op = "searchOneLine" /\ ~made[i].arg.b
    /\ made[made[i].this].op = "withAnyCase" /\ ~made[made[i].this].arg.b
    /\ heap[made[made[i].this].this].flags = <<"g", "i">>
    /\ CharsOf(heap[i].flags) = {"g", "m"}

\* The values of no supported type: an object, a boolean, a function
\* (other), null and undefined (null).
Unsupported(v) == v.k \in {"other", "null"}

\* C15 (SpecInput).  Unsupported input never raises: Sx, Sx.of, then, maybe
\* and or return when given a value of no supported type; the value
\* contributes the empty node, so Sx(value) and Sx.of(value) compile like
\* Sx(), e.then(value) has the source of e as a part of a sequence, without
\* its suffix, e.maybe(value) and e.or(value) are e with an empty option and
\* an empty alternative.
UnsupportedIsEmpty ==
  /\ Unsupported(call.arg) => call.err = "none" /\ call.res \in DOMAIN heap
  /\ \A i \in DOMAIN heap :
       Unsupported(made[i].arg) =>
         /\ made[i].op \in {"Sx", "Sx.of"} =>
              /\ heap[i].node = empty
              /\ ~CompileFails(heap[i])
              /\ CompileMethod(heap[i]) = CompileMethod(StaticEmpty)
         /\ made[i].op \in {"then", "maybe", "or"} => ArgNode(i) = empty
         /\ made[i].op = "then" =>
              stringify(heap[i]).source =
                heap[made[i].this].prefix \o AsPart(ReceiverNode(i))
         /\ made[i].op = "maybe" =>
              heap[i].node = maybe(ReceiverNode(i), empty)
         /\ made[i].op = "or" => heap[i].node = or_(ReceiverNode(i), empty)

\* C15 witness: e.then(value) was called with a value of no supported type
\* on an expression Sx.of returned for such a value, and was compiled to the
\* empty RegExp.
UnsupportedIsEmptyWitness ==
  /\ call.op = "compile" /\ call.err = "none"
  /\ call.out.source = EmptyPattern
  /\ made[call.this].op = "then" /\ made[call.this].arg = OtherValue
  /\ made[made[call.this].this] = Made("Sx.of", 0, OtherValue)

\* Some call so far was given an object, a boolean or a function.
UnsupportedOccurred ==
  \/ call.arg = OtherValue
  \/ \E i \in DOMAIN made : made[i].arg = OtherValue

\* C16 as claimed (SpecInput): the warning has been emitted, once, exactly
\* when some call so far degraded an object, a boolean or a function to the
\* empty pattern.
WarnedOnceIfUnsupported == warned <=> UnsupportedOccurred

RangeOps == {"charOfRanges", "charNotOfRanges"}

\* The number of boundaries given, all arguments flattened, is odd.
OddBoundaries(rs) == Len(Concat(rs)) % 2 = 1

\* Some boundary at an odd place is after the boundary that follows it.
InvertedBoundaries(rs) ==
  LET flat == Concat(rs)
  IN \E j \in 1..(Len(flat) \div 2) :
       CharCode(flat[2 * j - 1][1]) > CharCode(flat[2 * j][1])

\* C17 as claimed (SpecRanges): charOfRanges / charNotOfRanges with an odd
\* number of boundaries fails with InvalidRangeError and returns nothing.
OddRangesInvalidRangeError ==
  (call.op \in RangeOps /\ OddBoundaries(call.arg.rs)) =>
    call.err = "InvalidRangeError" /\ call.res = 0

\* C17 amended (SpecRanges): a call of charOfRanges / charNotOfRanges with
\* an odd number of boundaries fails with the AssertionError of makeRanges;
\* it returns nothing, and it leaves every expression, the receiver
\* included, as it was.
OddRangesFail ==
  [][(call'.op \in RangeOps /\ OddBoundaries(call'.arg.rs)) =>
       /\ call'.err = "AssertionError" /\ call'.res = 0
       /\ heap' = heap
       /\ made' = made]_vars

\* C17 witness: charOfRanges(["0", "9"], ["a"]) failed.
OddRangesFailWitness ==
  /\ call.op = "charOfRanges"
  /\ call.arg.rs = <<<<<<"0">>, <<"9">>>>, <<<<"a">>>>>>
  /\ call.err = "AssertionError" /\ call.res = 0

\* C18 (SpecRanges).  Inverted range: a call of charOfRanges /
\* charNotOfRanges with an even number of boundaries and a pair whose low
\* end is after its high end fails with InvalidRangeError, returns nothing
\* and leaves every expression as it was; so no expression has such a pair
\* in a character class, and none fails to compile.
InvertedRangesFail ==
  [][/\ (call'.op \in RangeOps /\ ~OddBoundaries(call'.arg.rs)
         /\ InvertedBoundaries(call'.arg.rs)) =>
          /\ call'.err = "InvalidRangeError" /\ call'.res = 0
          /\ heap' = heap
          /\ made' = made
     /\ \A i \in DOMAIN heap' :
          made'[i].op \in RangeOps =>
            /\ ~InvertedBoundaries(made'[i].arg.rs)
            /\ ~CompileFails(heap'[i])]_vars

\* C18 witness: charOfRanges(["0", "9"], ["z", "a"]) failed on an expression
\* charOfRanges had returned.
InvertedRangesFailWitness ==
  /\ call.op = "charOfRanges"
  /\ call.arg.rs = <<<<<<"0">>, <<"9">>>>, <<<<"z">>, <<"a">>>>>>
  /\ call.err = "InvalidRangeError" /\ call.res = 0
  /\ made[call.this].op = "charOfRanges"

\* The value of a decimal digit, and of a text of decimal digits.
DigitValue(c) == CHOOSE d \in 0..9 : NatText(d) = <<c>>
RECURSIVE NatOf(_)
NatOf(s) ==
  IF s = <<>> THEN 0
  ELSE NatOf(SubSeq(s, 1, Len(s) - 1)) * 10 + DigitValue(s[Len(s)])
IsDigits(s) ==
  s # <<>> /\ \A j \in DOMAIN s : \E d \in 0..9 : NatText(d) = <<s[j]>>

\* The source has a quantifier {m,n} with m > n.
HasInvertedQuantifier(src) ==
  \E p \in {x \in DOMAIN src : src[x] = "{"} :
    \E c \in {x \in (p + 2)..Len(src) : src[x] = ","} :
      \E q \in {x \in (c + 2)..Len(src) : src[x] = "}"} :
        /\ IsDigits(SubSeq(src, p + 1, c - 1))
        /\ IsDigits(SubSeq(src, c + 1, q - 1))
        /\ NatOf(SubSeq(src, p + 1, c - 1)) > NatOf(SubSeq(src, c + 1, q - 1))

Truncated(x, b) ==
  (x.k = "num" /\ x.n >= 0) =>
    b.some /\ b.v * x.d <= x.n /\ x.n < (b.v + 1) * x.d

QuantifiedInGroup(n) ==
  \/ n.t \in {"Sequence", "Alternation", "Quantified"}
  \/ n.t = "Literal" /\ Len(n.src) >= 2

\* C21 (SpecScenario).  Anchored repetition: repeat(min, max), capture(name)
\* and followedBy(x) return an expression with the receiver's prefix, which
\* stays outside the rendered body: the source of e.repeat(min, max) is the
\* prefix, then the body of e inside (?: ) (as it stands when it is a
\* group), then {min,max}; the source of e.capture(name) is the prefix, then
\* (?<name>body) or (body); the source of e.followedBy(x) is the prefix, the
\* body, then (?=x).  The chain of the test compiles to the source of its
\* snapshot.
AnchoredRepetition ==
  /\ TestRegex.source = TestSnapshot
  /\ \A i \in DOMAIN heap :
       LET e == made[i].this
           body == Render(ReceiverNode(i))
       IN /\ made[i].op \in {"repeat", "capture", "assertFollowedBy"} =>
               heap[i].prefix = heap[e].prefix
          /\ (made[i].op = "repeat" /\ ReceiverNode(i).t = "Group") =>
               stringify(heap[i]).source =
                 heap[e].prefix \o body \o AskedQuantifier(made[i].arg)
                 \o heap[i].suffix
          /\ (made[i].op = "repeat" /\ QuantifiedInGroup(ReceiverNode(i))) =>
               stringify(heap[i]).source =
                 heap[e].prefix \o <<"(", "?", ":">> \o body \o <<")">>
                 \o AskedQuantifier(made[i].arg) \o heap[i].suffix
          /\ made[i].op = "capture" =>
               stringify(heap[i]).source =
                 heap[e].prefix
                 \o (IF made[i].arg.s = Undef THEN <<"(">>
                     ELSE <<"(", "?", "<">> \o made[i].arg.s \o <<">">>)
                 \o body \o <<")">> \o heap[i].suffix
          /\ (made[i].op = "assertFollowedBy"
              /\ ReceiverNode(i).t \notin {"Empty", "Alternation"}) =>
               stringify(heap[i]).source =
                 heap[e].prefix \o body \o <<"(", "?", "=">>
                 \o Render(ArgNode(i)) \o <<")">> \o heap[i].suffix

\* C21 witness: Sx(/^b$/).maybe("a").capture("w") reads ^(?<w>ba?), and
\* its repeat(1, 4) reads ^(?<w>ba?){1,4}.
AnchoredRepetitionWitness ==
  /\ Len(heap) = 3
  /\ made[1].arg = RegExpValue(<<"^", "b", "$">>, <<>>)
  /\ made[2].op = "maybe" /\ made[2].this = 1 /\ made[2].arg = StringArg
  /\ made[3].op = "capture" /\ made[3].this = 2
  /\ stringify(heap[3]).source =
       <<"^", "(", "?", "<", "w", ">", "b", "a", "?", ")">>
  /\ stringify(RepeatMethod(heap, 3, JsNumber(1, 1), JsNumber(4, 1))[4]).source
       = <<"^", "(", "?", "<", "w", ">", "b", "a", "?", ")", "{", "1", ",",
           "4", "}">>

\* C22 (SpecApi).  Anchor domain: every expression constructed by Sx, Sx.of,
\* Sx.or or Sx.seq, or returned by a fluent method, has a prefix that is
\* empty or `^` and a suffix that is empty or `$`.
AnchorDomain ==
  \A i \in DOMAIN heap :
    /\ heap[i].prefix \in {<<>>, <<"^">>}
    /\ heap[i].suffix \in {<<>>, <<"$">>}

\* C22 witness: Sx.of(/^^b$$/), whose source keeps one `^` and one `$`, has
\* the prefix `^` and the suffix `$`, and so has its assertStartOfLine().
AnchorDomainWitness ==
  \E i \in DOMAIN heap :
    /\ made[i].op = "assertStartOfLine" /\ made[i].arg.b
    /\ made[made[i].this] = Made("Sx.of", 0, DoubleAnchored)
    /\ heap[made[i].this].node = Literal(<<"^", "b", "$">>, FALSE)
    /\ heap[made[i].this].prefix = <<"^">>
    /\ heap[i].prefix = <<"^">> /\ heap[i].suffix = <<"$">>

\* The call that made expression i is assertEndOfLine(true).
EndAsserted(i) == made[i].op = "assertEndOfLine" /\ made[i].arg.b

RECURSIVE Ancestors(_)
\* The expressions i was derived from by fluent methods, i included.
Ancestors(i) ==
  IF made[i].this = 0 THEN {i} ELSE {i} \cup Ancestors(made[i].this)

RECURSIVE EndAssertedSince(_, _)
\* Some call on the way from expression j to the expression i derived from
\* it is assertEndOfLine(true).
EndAssertedSince(i, j) ==
  IF i = j THEN FALSE
  ELSE EndAsserted(i) \/ EndAssertedSince(made[i].this, j)

\* C23 (SpecFluent).  The end anchor is introduced by assertEndOfLine only:
\* a fluent method other than assertEndOfLine(true), called on an expression
\* with an empty suffix, returns an expression with an empty suffix,
\* whatever the suffix of its argument; and an expression derived from one
\* with an empty suffix by calls none of which is assertEndOfLine(true) has
\* an empty suffix.
SuffixByEndAssertOnly ==
  \A i \in DOMAIN heap :
    /\ (made[i].this # 0 /\ ~EndAsserted(i)
        /\ heap[made[i].this].suffix = <<>>) => heap[i].suffix = <<>>
    /\ \A j \in Ancestors(i) :
         (heap[j].suffix = <<>> /\ ~EndAssertedSince(i, j)) =>
           heap[i].suffix = <<>>

\* C23 witness: Sx(/c$/m).then(/^b$/m).or(/^b$/m): then has cleared the
\* suffix, and or, given an argument with the suffix `$`, returns an
\* expression without one.
SuffixByEndAssertOnlyWitness ==
  /\ Len(heap) = 3
  /\ heap[1].suffix = <<"$">>
  /\ made[2].op = "then" /\ made[2].this = 1 /\ heap[2].suffix = <<>>
  /\ made[3].op = "or" /\ made[3].this = 2 /\ made[3].arg = RegExpArg
  /\ Of(heap, made[3].arg).suffix = <<"$">>
  /\ heap[3].suffix = <<>>

\* The root node e.assertStartOfLine(a).assertEndOfLine(b) has, and the root
\* node e.assertEndOfLine(b).assertStartOfLine(a) has, for e = heap[i].
StartThenEnd(i, a, b) ==
  LET h == assertStartOfLine(heap, i, a)
  IN assertEndOfLine(h, Len(h), b)[Len(h) + 1]
EndThenStart(i, a, b) ==
  LET h == assertEndOfLine(heap, i, b)
  IN assertStartOfLine(h, Len(h), a)[Len(h) + 1]

\* C24 (SpecAnchor).  Anchor setters touch one field: the result of
\* assertStartOfLine(enable) has the prefix `^` when enable is true and the
\* empty prefix otherwise, and the node, the suffix and the flags of the
\* receiver; the result of assertEndOfLine(enable) has the suffix `$` or the
\* empty suffix, and the node, the prefix and the flags of the receiver.
\* Calling a setter again with the same argument returns an equal root node,
\* and the two setters give the same root node in either order.
AnchorSettersFrame ==
  \A i \in DOMAIN heap :
    /\ made[i].op = "assertStartOfLine" =>
         heap[i] = [heap[made[i].this] EXCEPT
                      !.prefix = IF made[i].arg.b THEN <<"^">> ELSE <<>>]
    /\ made[i].op = "assertEndOfLine" =>
         heap[i] = [heap[made[i].this] EXCEPT
                      !.suffix = IF made[i].arg.b THEN <<"$">> ELSE <<>>]
    /\ (made[i].op \in {"assertStartOfLine", "assertEndOfLine"}
        /\ made[made[i].this].op = made[i].op
        /\ made[made[i].this].arg = made[i].arg) =>
         heap[i] = heap[made[i].this]
    /\ \A a, b \in BOOLEAN :
         /\ StartThenEnd(i, a, b) = EndThenStart(i, a, b)
         /\ StartThenEnd(i, a, b) =
              [heap[i] EXCEPT !.prefix = IF a THEN <<"^">> ELSE <<>>,
                              !.suffix = IF b THEN <<"$">> ELSE <<>>]

\* C24 witness: Sx(/^b$/).assertEndOfLine(false).assertEndOfLine(false): the
\* prefix `^` and the node are kept, the suffix is empty after the first
\* call and after the second.
AnchorSettersFrameWitness ==
  /\ Len(heap) = 3
  /\ made[1].arg = RegExpValue(<<"^", "b", "$">>, <<>>)
  /\ made[2].op = "assertEndOfLine" /\ ~made[2].arg.b /\ made[2].this = 1
  /\ made[3] = [made[2] EXCEPT !.this = 2]
  /\ heap[2] = [heap[1] EXCEPT !.suffix = <<>>]
  /\ heap[2].prefix = <<"^">>
  /\ heap[3] = heap[2]

\* The methods that take an expression, or a value made one, as argument.
BinaryOps ==
  {"then", "maybe", "or", "assertFollowedBy", "assertNotFollowedBy"}
\* The methods that set an anchor.
AnchorOps == {"assertStartOfLine", "assertEndOfLine"}

\* The node a method with an argument builds from the two nodes.
BinaryNode(op, a, b) ==
  CASE op = "then" -> then_(a, b)
    [] op = "maybe" -> maybe(a, b)
    [] op = "or" -> or_(a, b)
    [] op = "assertFollowedBy" -> followedBy(a, b)
    [] op = "assertNotFollowedBy" -> notFollowedBy(a, b)

\* C25 (SpecFluent).  Only the argument's node is used: the result of then,
\* maybe, or, assertFollowedBy and assertNotFollowedBy has the prefix and
\* the flags of the receiver, whatever the prefix, the suffix and the flags
\* of the argument, and its node is built from the receiver's node and the
\* argument's node; every method that is neither an anchor setter nor a
\* flag method returns an expression with the receiver's prefix and flags.
\* The chain of the test, started from /^test_expr$/, keeps the prefix `^`
\* and the empty flags.
ArgumentNodeOnly ==
  /\ TestChain[16].prefix = <<"^">> /\ TestChain[16].flags = <<>>
  /\ \A i \in DOMAIN heap :
       LET e == made[i].this
       IN /\ (e # 0 /\ made[i].op \notin AnchorOps \cup FlagOps) =>
               /\ heap[i].prefix = heap[e].prefix
               /\ heap[i].flags = heap[e].flags
          /\ made[i].op \in BinaryOps =>
               heap[i].node =
                 BinaryNode(made[i].op, ReceiverNode(i), ArgNode(i))

\* C25 witness: Sx("a").maybe(/^b$/m).assertFollowedBy(/^b$/m) has no prefix
\* and the flags `gi`; the argument has the prefix `^` and the flag `m`.
ArgumentNodeOnlyWitness ==
  /\ Len(heap) = 3
  /\ made[1].arg = StringValue(<<"a">>)
  /\ made[2].op = "maybe" /\ made[2].this = 1 /\ made[2].arg = RegExpArg
  /\ made[3].op = "assertFollowedBy" /\ made[3].this = 2
  /\ made[3].arg = RegExpArg
  /\ Of(heap, made[3].arg).prefix = <<"^">>
  /\ Of(heap, made[3].arg).flags = <<"m">>
  /\ heap[3].prefix = <<>> /\ heap[3].flags = <<"g", "i">>

\* The methods that quantify: maybe quantifies the argument's node, the
\* others the receiver's node.
QuantifierOps ==
  {"maybe", "oneOrMore", "zeroOrMore", "repeat", "repeatExactly"}
\* The node quantified by the call that made i, and the quantifier built.
QuantifiedChild(i) ==
  IF made[i].op = "maybe" THEN ArgNode(i) ELSE ReceiverNode(i)
QuantifierOf(i) ==
  IF made[i].op = "maybe"
    THEN Quantified(ArgNode(i), Some(0), Some(1), FALSE)
  ELSE heap[i].node

\* The token of the quantifier the call that made i asks for.
AskedToken(i) ==
  CASE made[i].op = "maybe" -> <<"?">>
    [] made[i].op = "oneOrMore" -> <<"+">>
    [] made[i].op = "zeroOrMore" -> <<"*">>
    [] made[i].op = "repeatExactly" ->
         <<"{">> \o IntText(ToInt32(made[i].arg.min)) \o <<"}">>
    [] made[i].op = "repeat" ->
         LET b == <<made[i].arg.min, made[i].arg.max>>
         IN IF b = <<JsNumber(1, 1), NullValue>> THEN <<"+">>
            ELSE IF b = <<JsNumber(0, 1), NullValue>> THEN <<"*">>
            ELSE IF b = <<JsNumber(0, 1), JsNumber(1, 1)>> THEN <<"?">>
            ELSE AskedQuantifier(made[i].arg)

\* The text ends with the given text.
EndsWithText(s, t) ==
  Len(s) >= Len(t) /\ SubSeq(s, Len(s) - Len(t) + 1, Len(s)) = t

\* The quantifier the call that made i built reads: the child as it stands,
\* then the token; and the source of i ends with it and the suffix.
QuantifiedBare(i) ==
  /\ Render(QuantifierOf(i)) = Render(QuantifiedChild(i)) \o AskedToken(i)
  /\ EndsWithText(stringify(heap[i]).source,
                  Render(QuantifiedChild(i)) \o AskedToken(i)
                  \o heap[i].suffix)

\* C26 as claimed (SpecAtomic): a quantifier applied to a built-in class, a
\* single character, a group or a character class is appended to the
\* rendered child without a non-capturing group, {1,} {0,} {0,1} as + * ?.
AtomicChildrenBare ==
  \A i \in DOMAIN heap :
    (/\ made[i].op \in QuantifierOps
     /\ \/ QuantifiedChild(i).t \in {"BuiltIn", "Group", "CharClass"}
        \/ QuantifiedChild(i) = Literal(<<"a">>, TRUE)) =>
      QuantifiedBare(i)

\* C26 amended (SpecAtomic): a quantifier applied to a single character, a
\* group or a character class is appended to the rendered child without a
\* non-capturing group, {1,} {0,} {0,1} as + * ?; a built-in class is
\* quantified inside (?: ), as in the snapshot of the test ((?:\s)+).
AtomicChildrenQuantified ==
  \A i \in DOMAIN heap :
    made[i].op \in QuantifierOps =>
      /\ (\/ QuantifiedChild(i).t \in {"Group", "CharClass"}
          \/ QuantifiedChild(i) = Literal(<<"a">>, TRUE)) =>
           QuantifiedBare(i)
      /\ QuantifiedChild(i).t = "BuiltIn" =>
           Render(QuantifierOf(i)) =
             <<"(", "?", ":">> \o Render(QuantifiedChild(i)) \o <<")">>
             \o AskedToken(i)

\* C26 witness: Sx().charOfRanges(["0", "9"], ["a", "f"]).repeatExactly(8)
\* compiles to [0-9a-f]{8}.
AtomicChildrenQuantifiedWitness ==
  /\ Len(heap) = 3
  /\ heap[1].node = empty
  /\ made[2].op = "charOfRanges" /\ made[2].this = 1
  /\ made[3].op = "repeatExactly" /\ made[3].this = 2
  /\ ~CompileFails(heap[3])
  /\ CompileMethod(heap[3]).source =
       <<"[", "0", "-", "9", "a", "-", "f", "]", "{", "8", "}">>

\* Expression i is the empty expression: the empty node, no anchors.
IsEmptyExpr(i) ==
  heap[i].node = empty /\ heap[i].prefix = <<>> /\ heap[i].suffix = <<>>

\* The part the call that made i appends to the receiver's node.
AppendedPart(i) ==
  CASE made[i].op = "then" -> ArgNode(i)
    [] made[i].op = "charOfRanges" ->
         CharClass({}, makeRanges(made[i].arg.rs), FALSE)
    [] made[i].op = "oneOf" ->
         CharClass(CharsOf(FlatJoin(made[i].arg)), <<>>, FALSE)

\* C27 as claimed (SpecEmpty): for every x, Sx().then(x) compiles to the
\* same source as x.
EmptyThenSameSource ==
  \A i \in DOMAIN heap :
    (made[i].op = "then" /\ IsEmptyExpr(made[i].this)) =>
      CompileMethod(heap[i]).source =
        CompileMethod(Of(heap, made[i].arg)).source

\* C27 amended (SpecEmpty): Sx().then(x) has the node of x and compiles to
\* the source of x without the anchors of x, which is the source of x when
\* x has no anchors; then, charOfRanges and oneOf on the empty expression
\* return the appended part as the node, and a quantifier on that result
\* renders like the quantifier on the part alone.
EmptyIsLeftIdentity ==
  \A i \in DOMAIN heap :
    /\ (made[i].op \in {"then", "charOfRanges", "oneOf"}
        /\ IsEmptyExpr(made[i].this)) =>
         /\ heap[i].node = AppendedPart(i)
         /\ stringify(heap[i]).source = Render(AppendedPart(i))
    /\ (made[i].op = "then" /\ IsEmptyExpr(made[i].this)) =>
         LET x == Of(heap, made[i].arg)
         IN /\ x.prefix \o stringify(heap[i]).source \o x.suffix =
                 stringify(x).source
            /\ (x.prefix = <<>> /\ x.suffix = <<>>) =>
                 CompileMethod(heap[i]).source = CompileMethod(x).source
    /\ (made[i].op \in {"repeatExactly", "oneOrMore"}
        /\ made[made[i].this].op \in {"then", "charOfRanges", "oneOf"}
        /\ IsEmptyExpr(made[made[i].this].this)) =>
         heap[i].node =
           [heap[i].node EXCEPT !.child = AppendedPart(made[i].this)]

\* C27 witness: Sx().charOfRanges(["0", "9"], ["a", "f"]).repeatExactly(8)
\* has the character class itself under the quantifier and reads
\* [0-9a-f]{8}.
EmptyIsLeftIdentityWitness ==
  /\ Len(heap) = 3
  /\ made[1] = Made("Sx", 0, NullValue)
  /\ made[2].op = "charOfRanges" /\ made[2].this = 1
  /\ made[3].op = "repeatExactly" /\ made[3].this = 2
  /\ heap[3].node.child.t = "CharClass"
  /\ stringify(heap[3]).source =
       <<"[", "0", "-", "9", "a", "-", "f", "]", "{", "8", "}">>

RECURSIVE TrailingBackslashes(_)
\* The number of backslashes the text ends with.
TrailingBackslashes(s) ==
  IF s = <<>> \/ s[Len(s)] # "\\" THEN 0
  ELSE 1 + TrailingBackslashes(SubSeq(s, 1, Len(s) - 1))

\* The regex source ends with an escaped dollar, a literal dollar sign: the
\* `$` follows an odd number of backslashes.
EndsWithEscapedDollar(s) ==
  /\ EndsWith(s, "$")
  /\ TrailingBackslashes(SubSeq(s, 1, Len(s) - 1)) % 2 = 1

\* The text starts with the given text.
StartsWithText(s, t) == Len(s) >= Len(t) /\ SubSeq(s, 1, Len(t)) = t

\* C28 as claimed (SpecSanitize): the expression Sx(r) of a RegExp r whose
\* source ends with an escaped dollar has no suffix, and the source of
\* Sx(r).then(x) starts with the whole source of r.
EscapedDollarKept ==
  \A i \in DOMAIN heap :
    (made[i].op = "Sx" /\ made[i].arg.k = "regexp"
     /\ EndsWithEscapedDollar(made[i].arg.s)) =>
      /\ heap[i].suffix = <<>>
      /\ \A j \in DOMAIN heap :
           (made[j].op = "then" /\ made[j].this = i) =>
             StartsWithText(stringify(heap[j]).source, made[i].arg.s)

\* C29 as claimed (SpecNumber): the source of the expression Sx(n) of a
\* number n consists of literal characters only, and the one string it
\* matches is String(n).
NumberMatchesItself ==
  \A i \in DOMAIN heap :
    (made[i].op = "Sx" /\ made[i].arg.k = "number") =>
      /\ AllLiteral(stringify(heap[i]).source)
      /\ Matched(stringify(heap[i]).source) = made[i].arg.s

\* C30 as claimed (SpecApi): the source of an expression whose node is an
\* alternation and which has the prefix `^` or the suffix `$` has the whole
\* alternation inside (?: ) between the anchors, so that an anchor
\* constrains every branch.
AnchoredAlternationGrouped ==
  \A i \in DOMAIN heap :
    (heap[i].node.t = "Alternation"
     /\ (heap[i].prefix = <<"^">> \/ heap[i].suffix = <<"$">>)) =>
      stringify(heap[i]).source =
        heap[i].prefix \o <<"(", "?", ":">> \o Render(heap[i].node)
        \o <<")">> \o heap[i].suffix

====
